---- MODULE Spec2Model ----
(***************************************************************************)
(* State engine of the raisoni chat room server: presence registry,       *)
(* message history (TTL + soft cap), reaction store, rate limiter and     *)
(* private chats.                                                          *)
(*                                                                         *)
(* The repository holds three variants of the server:                     *)
(*   "server"   src/server.js          login based, TTL 24h, cap 200      *)
(*   "part_001" src/unnamed/part_001   anonymous join, TTL 24h, cap 200   *)
(*   "part_002" src/unnamed/part_002   anonymous join, no TTL, cap 50     *)
(* The variable `variant` is fixed in the initial state and selects the   *)
(* code every handler runs.                                                *)
(*                                                                         *)
(* Representation:                                                         *)
(*   - strings the code manipulates (usernames, message bodies) are       *)
(*     sequences of one-character strings; "" is <<>>;                    *)
(*   - a message id is the number whose String() image the code stores;   *)
(*     0 stands for a missing (falsy) id;                                 *)
(*   - time is counted in ticks; the millisecond constants are scaled.    *)
(***************************************************************************)
EXTENDS Integers, Sequences, FiniteSets, TLC

VARIABLES
  variant,          \* which server file is running
  now,              \* Date.now()
  sockState,        \* socket id -> "new" | "open" | "closed" (transport)
  connectedUsers,   \* Map socketId -> userData ; NoUser when absent
  recentMessages,   \* array of stored messages
  messageLimits,    \* Map socketId -> {count, resetTime} ; NoLimit when absent
  typingUsers,      \* Map username -> socketId, as a set of pairs
  privateChats,     \* Map chatId -> chat record, as the sequence of its records
  userPrivateChats, \* Map username -> Set of chatIds, as a set of pairs
  clients,          \* browser clients (chat.js): connection state of each
  out,              \* events emitted by the handler that ran last, in order
  wire              \* whether this run records the emitted events in `out`

vars == <<variant, now, sockState, connectedUsers, recentMessages,
          messageLimits, typingUsers, privateChats, userPrivateChats, clients,
          out, wire>>

----------------------------------------------------------------------------
(* Bounds of the model and scaled program constants *)

\* connections that ever open, and outcomes of one Math.random() draw
MaxSockets == 2
MaxRand == 2

\* The program's constants, scaled to ticks and to small collections. The
\* order of the sizes is the program's (200 > 50 > 10; the limiter lets one
\* connection fill less than the history, two connections more than it).
\*   MESSAGE_TTL_MS     24 * 60 * 60 * 1000 ms   one tick
\*   RATE_LIMIT_WINDOW  60000 ms                 one tick
\*   MESSAGE_RATE_LIMIT 10 messages              2
\*   MAX_MESSAGES       200 (server, part_001)   3
\*   MAX_MESSAGES       50 (part_002)            2
\*   slice(-10) on connection (part_002)         1
\*   MAX_PRIVATE_MESSAGES 100                     2
\*   slice(-20) on accept (part_001, part_002)    1
\*   substring(0, 20) of a username              3
\*   substring(0, 500) of a message body         2
MESSAGE_TTL_MS == 1
RATE_LIMIT_WINDOW == 1
MESSAGE_RATE_LIMIT == 2
MaxMessages200 == 3
MaxMessages50 == 2
SnapshotTail == 1
maxReconnectAttempts == 5
MAX_PRIVATE_MESSAGES == 2
ReplayTail == 1
NameMaxLen == 3
BodyMaxLen == 2

\* the clock stops one tick after a message of time 0 has expired
MaxTime == MESSAGE_TTL_MS + 1

Variants == {"server", "part_001", "part_002"}
Sockets == 1..MaxSockets

HasTTL == variant \in {"server", "part_001"}

MAX_MESSAGES == IF variant = "part_002" THEN MaxMessages50 ELSE MaxMessages200

----------------------------------------------------------------------------
(* Generic helpers on sequences *)

Range(s) == { s[i] : i \in 1..Len(s) }

RECURSIVE IndexOfFrom(_, _, _)
IndexOfFrom(s, x, i) ==
  IF i > Len(s) THEN 0
  ELSE IF s[i] = x THEN i ELSE IndexOfFrom(s, x, i + 1)

\* Array.prototype.indexOf, 1-based; 0 when absent
IndexOf(s, x) == IndexOfFrom(s, x, 1)

\* Array.prototype.splice(i, 1), i 1-based
RemoveAt(s, i) == [ j \in 1..(Len(s) - 1) |-> IF j < i THEN s[j] ELSE s[j + 1] ]

\* s.slice(-n)
Tail_n(s, n) == IF Len(s) <= n THEN s ELSE SubSeq(s, Len(s) - n + 1, Len(s))

\* s.substring(0, n)
Take(s, n) == IF Len(s) <= n THEN s ELSE SubSeq(s, 1, n)

RECURSIVE TrimLeft(_)
TrimLeft(s) == IF s # <<>> /\ Head(s) = " " THEN TrimLeft(Tail(s)) ELSE s

RECURSIVE TrimRight(_)
TrimRight(s) ==
  IF s # <<>> /\ s[Len(s)] = " " THEN TrimRight(SubSeq(s, 1, Len(s) - 1)) ELSE s

\* String.prototype.trim
Trim(s) == TrimRight(TrimLeft(s))

----------------------------------------------------------------------------
(* Values *)

\* chat.js constructor: isConnected, reconnectAttempts ; `timers` holds the
\* delays of the pending setTimeout retries, `localMode` is set by
\* fallbackToLocalMode
NewClient ==
  [isConnected |-> FALSE, reconnectAttempts |-> 0, timers |-> {}, localMode |-> FALSE]

NoUser == [username |-> <<>>]
NoLimit == [count |-> 0, resetTime |-> 0]
Unknown == <<"Unknown">>

\* payload field that is not a string (a number, an object, undefined)
NotAString == <<"#notastring">>

\* an event sent with no payload: the handler's `data` is undefined
Undefined == [undefined |-> TRUE]

ToAll == [kind |-> "all", sock |-> 0]
ToOthers(s) == [kind |-> "others", sock |-> s]
ToSocket(s) == [kind |-> "socket", sock |-> s]

Ev(to, event, data) == [to |-> to, event |-> event, data |-> data]

\* does socket s receive event e
Receives(s, e) ==
  \/ e.to.kind = "all"
  \/ e.to.kind = "others" /\ e.to.sock # s
  \/ e.to.kind = "socket" /\ e.to.sock = s

\* what a handler that emitted `events` leaves in `out`
Emit(events) == /\ out' = IF wire THEN events ELSE <<>>
                /\ wire' = wire

EventsNamed(name) == SelectSeq(out, LAMBDA e : e.event = name)

----------------------------------------------------------------------------
(* Map helpers: connectedUsers is a JS Map, kept as the sequence of its     *)
(* entries in insertion order.                                              *)

MapIndex(m, k) ==
  IF \E i \in 1..Len(m) : m[i].socketId = k
  THEN CHOOSE i \in 1..Len(m) : m[i].socketId = k
  ELSE 0

MapHas(m, k) == MapIndex(m, k) # 0

\* Map.get ; NoUser stands for undefined
MapGet(m, k) == IF MapHas(m, k) THEN [username |-> m[MapIndex(m, k)].username] ELSE NoUser

\* Map.set : an existing key keeps its place
MapSet(m, k, name) ==
  IF MapHas(m, k)
  THEN [m EXCEPT ![MapIndex(m, k)].username = name]
  ELSE Append(m, [socketId |-> k, username |-> name])

MapDelete(m, k) == SelectSeq(m, LAMBDA e : e.socketId # k)

\* Array.from(connectedUsers.values()).find(u => u.username === name)
FindByName(m, name) ==
  IF \E i \in 1..Len(m) : m[i].username = name
  THEN m[CHOOSE i \in 1..Len(m) :
            m[i].username = name /\ \A j \in 1..(i - 1) : m[j].username # name].socketId
  ELSE 0

getOnlineUsers(m) == [ i \in 1..Len(m) |-> m[i].username ]

\* mutant: the count is the number of distinct names in the list
broadcastUserCountOfNames(m) ==
  << Ev(ToAll, "user count", Cardinality(Range(getOnlineUsers(m)))),
     Ev(ToAll, "online users", getOnlineUsers(m)) >>

broadcastUserCount(m) ==
  << Ev(ToAll, "user count", Len(m)), Ev(ToAll, "online users", getOnlineUsers(m)) >>

----------------------------------------------------------------------------
(* Rate limiter *)

\* checkRateLimit(socketId) at time t: the result and the map afterwards
\* mutant: the cap is tested with > instead of >=
checkRateLimitOneMore(limits, socketId, t) ==
  LET userLimit == limits[socketId] IN
  IF userLimit = NoLimit \/ t > userLimit.resetTime
  THEN [ok |-> TRUE,
        limits |-> [limits EXCEPT ![socketId] =
                      [count |-> 1, resetTime |-> t + RATE_LIMIT_WINDOW]]]
  ELSE IF userLimit.count > MESSAGE_RATE_LIMIT
  THEN [ok |-> FALSE, limits |-> limits]
  ELSE [ok |-> TRUE, limits |-> [limits EXCEPT ![socketId].count = @ + 1]]

\* mutant: a refused call still consumes a slot
checkRateLimitConsumes(limits, socketId, t) ==
  LET userLimit == limits[socketId] IN
  IF userLimit = NoLimit \/ t > userLimit.resetTime
  THEN [ok |-> TRUE,
        limits |-> [limits EXCEPT ![socketId] =
                      [count |-> 1, resetTime |-> t + RATE_LIMIT_WINDOW]]]
  ELSE [ok |-> userLimit.count < MESSAGE_RATE_LIMIT,
        limits |-> [limits EXCEPT ![socketId].count = @ + 1]]

checkRateLimit(limits, socketId, t) ==
  LET userLimit == limits[socketId] IN
  IF userLimit = NoLimit \/ t > userLimit.resetTime
  THEN [ok |-> TRUE,
        limits |-> [limits EXCEPT ![socketId] =
                      [count |-> 1, resetTime |-> t + RATE_LIMIT_WINDOW]]]
  ELSE IF userLimit.count >= MESSAGE_RATE_LIMIT
  THEN [ok |-> FALSE, limits |-> limits]
  ELSE [ok |-> TRUE, limits |-> [limits EXCEPT ![socketId].count = @ + 1]]

\* mutant: the sweep looks at the reset time only
cleanupRateLimitsExpiredOnly(limits, users, t) ==
  [ s \in Sockets |->
      IF limits[s] # NoLimit /\ t > limits[s].resetTime THEN NoLimit ELSE limits[s] ]

\* cleanupRateLimits at time t
cleanupRateLimits(limits, users, t) ==
  [ s \in Sockets |->
      IF limits[s] # NoLimit /\ (t > limits[s].resetTime \/ ~MapHas(users, s))
      THEN NoLimit ELSE limits[s] ]

----------------------------------------------------------------------------
(* Sanitizers *)

\* sanitizeMessage: '' for a missing or non-string body
sanitizeMessage(message) ==
  IF message = <<>> \/ message = NotAString THEN <<>>
  ELSE Take(Trim(message), BodyMaxLen)

BadNameChars == {"<", ">", "\"", "'", "&"}

\* sanitizeUsername: <<>> stands for null
sanitizeUsername(username) ==
  IF username = <<>> \/ username = NotAString THEN <<>>
  ELSE Take(SelectSeq(Trim(username), LAMBDA c : c \notin BadNameChars), NameMaxLen)

----------------------------------------------------------------------------
(* Message history *)

\* String(Date.now() + Math.random()): one of MaxRand values per clock value
GenId(t, r) == t * MaxRand + r + 1

Expired(msg, t) == t - msg.timestamp > MESSAGE_TTL_MS

\* recentMessages.findIndex(m => String(m.id) === id), 1-based; 0 when absent
RECURSIVE FindIndexFrom(_, _, _)
FindIndexFrom(msgs, id, i) ==
  IF i > Len(msgs) THEN 0
  ELSE IF msgs[i].id = id THEN i ELSE FindIndexFrom(msgs, id, i + 1)

FindIndex(msgs, id) == FindIndexFrom(msgs, id, 1)

\* for (const id of toDelete) { idx = findIndex(...); if (idx !== -1) splice(idx, 1) }
RECURSIVE SpliceIds(_, _)
SpliceIds(msgs, ids) ==
  IF ids = <<>> THEN msgs
  ELSE LET idx == FindIndex(msgs, Head(ids)) IN
       SpliceIds(IF idx # 0 THEN RemoveAt(msgs, idx) ELSE msgs, Tail(ids))

\* mutant: one 'message deleted' event for each expired message
pruneExpiredMessagesOneByOne(msgs, t) ==
  LET expired == SelectSeq(msgs, LAMBDA m : Expired(m, t))
      toDelete == [ i \in 1..Len(expired) |-> expired[i].id ]
  IN [msgs |-> SpliceIds(msgs, toDelete),
      events |-> [ i \in 1..Len(toDelete) |->
                     Ev(ToAll, "message deleted", << toDelete[i] >>) ]]

\* pruneExpiredMessages at time t: the array afterwards and the events emitted
pruneExpiredMessages(msgs, t) ==
  LET expired == SelectSeq(msgs, LAMBDA m : Expired(m, t))
      toDelete == [ i \in 1..Len(expired) |-> expired[i].id ]
  IN IF toDelete = <<>>
     THEN [msgs |-> msgs, events |-> <<>>]
     ELSE [msgs |-> SpliceIds(msgs, toDelete),
           events |-> << Ev(ToAll, "message deleted", toDelete) >>]

\* mutant: the messages evicted for capacity are announced as deleted
addMessageToHistoryAnnounces(msgs, messageData, t) ==
  LET pushed == Append(msgs, messageData)
      pruned == IF HasTTL THEN pruneExpiredMessages(pushed, t)
                ELSE [msgs |-> pushed, events |-> <<>>]
      excess == Len(pruned.msgs) - MAX_MESSAGES
  IN IF excess > 0
     THEN [msgs |-> SubSeq(pruned.msgs, excess + 1, Len(pruned.msgs)),
           events |-> pruned.events
                      \o << Ev(ToAll, "message deleted",
                               [ i \in 1..excess |-> pruned.msgs[i].id ]) >>]
     ELSE pruned

\* mutant: the newest messages are dropped when the history is over capacity
addMessageToHistoryDropsNewest(msgs, messageData, t) ==
  LET pushed == Append(msgs, messageData)
      pruned == IF HasTTL THEN pruneExpiredMessages(pushed, t)
                ELSE [msgs |-> pushed, events |-> <<>>]
  IN [msgs |-> IF Len(pruned.msgs) > MAX_MESSAGES
               THEN SubSeq(pruned.msgs, 1, MAX_MESSAGES) ELSE pruned.msgs,
      events |-> pruned.events]

\* mutant: the message is put in front of the history
addMessageToHistoryInFront(msgs, messageData, t) ==
  LET pushed == <<messageData>> \o msgs
      pruned == IF HasTTL THEN pruneExpiredMessages(pushed, t)
                ELSE [msgs |-> pushed, events |-> <<>>]
  IN [msgs |-> IF Len(pruned.msgs) > MAX_MESSAGES
               THEN Tail_n(pruned.msgs, MAX_MESSAGES) ELSE pruned.msgs,
      events |-> pruned.events]

\* addMessageToHistory(messageData) at time t
addMessageToHistory(msgs, messageData, t) ==
  LET pushed == Append(msgs, messageData) IN
  IF HasTTL
  THEN LET pruned == pruneExpiredMessages(pushed, t) IN
       [msgs |-> IF Len(pruned.msgs) > MAX_MESSAGES
                 THEN SubSeq(pruned.msgs, Len(pruned.msgs) - MAX_MESSAGES + 1,
                             Len(pruned.msgs))
                 ELSE pruned.msgs,
        events |-> pruned.events]
  ELSE [msgs |-> IF Len(pushed) > MAX_MESSAGES THEN Tail(pushed) ELSE pushed,
        events |-> <<>>]

\* recentMessages.filter(m => now - ts <= MESSAGE_TTL_MS)
recent24h(msgs, t) == SelectSeq(msgs, LAMBDA m : ~Expired(m, t))

----------------------------------------------------------------------------
(* Reaction store. message.reactions is an object: the sequence of its      *)
(* entries [symbol, users] in insertion order, users an array.              *)

HasSymbol(rx, symbol) == \E i \in 1..Len(rx) : rx[i].symbol = symbol

UsersOf(rx, symbol) ==
  IF HasSymbol(rx, symbol)
  THEN rx[CHOOSE i \in 1..Len(rx) : rx[i].symbol = symbol].users
  ELSE <<>>

\* mutant: an emptied entry is not deleted
StripUserKeepsEmpty(rx, username) ==
  [ i \in 1..Len(rx) |->
      IF IndexOf(rx[i].users, username) # 0
      THEN [symbol |-> rx[i].symbol,
            users |-> RemoveAt(rx[i].users, IndexOf(rx[i].users, username))]
      ELSE rx[i] ]

\* the loop over Object.entries(message.reactions) of the 'add' branch
StripUser(rx, username) ==
  LET spliced == [ i \in 1..Len(rx) |->
                     IF IndexOf(rx[i].users, username) # 0
                     THEN [symbol |-> rx[i].symbol,
                           users |-> RemoveAt(rx[i].users, IndexOf(rx[i].users, username)),
                           hit |-> TRUE]
                     ELSE [symbol |-> rx[i].symbol, users |-> rx[i].users, hit |-> FALSE] ]
      kept == SelectSeq(spliced, LAMBDA e : ~(e.hit /\ e.users = <<>>))
  IN [ i \in 1..Len(kept) |-> [symbol |-> kept[i].symbol, users |-> kept[i].users] ]

\* mutant: the user's earlier reaction is not removed first
addReactionKeepsOld(rx, reaction, username) ==
  LET withKey == IF HasSymbol(rx, reaction) THEN rx
                 ELSE Append(rx, [symbol |-> reaction, users |-> <<>>])
  IN [ i \in 1..Len(withKey) |->
         IF withKey[i].symbol = reaction /\ IndexOf(withKey[i].users, username) = 0
         THEN [withKey[i] EXCEPT !.users = Append(@, username)]
         ELSE withKey[i] ]

addReaction(rx, reaction, username) ==
  LET stripped == StripUser(rx, username)
      withKey == IF HasSymbol(stripped, reaction) THEN stripped
                 ELSE Append(stripped, [symbol |-> reaction, users |-> <<>>])
  IN [ i \in 1..Len(withKey) |->
         IF withKey[i].symbol = reaction /\ IndexOf(withKey[i].users, username) = 0
         THEN [withKey[i] EXCEPT !.users = Append(@, username)]
         ELSE withKey[i] ]

\* mutant: remove takes the user out of every symbol
removeReactionEverywhere(rx, reaction, username) ==
  LET spliced == [ i \in 1..Len(rx) |->
                     IF IndexOf(rx[i].users, username) # 0
                     THEN [symbol |-> rx[i].symbol,
                           users |-> RemoveAt(rx[i].users, IndexOf(rx[i].users, username))]
                     ELSE rx[i] ]
  IN SelectSeq(spliced, LAMBDA e : e.users # <<>>)

\* the 'remove' branch; part_002 tests for the empty array outside the inner if
removeReaction(rx, reaction, username) ==
  LET spliced == [ i \in 1..Len(rx) |->
                     IF rx[i].symbol = reaction /\ IndexOf(rx[i].users, username) # 0
                     THEN [symbol |-> rx[i].symbol,
                           users |-> RemoveAt(rx[i].users, IndexOf(rx[i].users, username)),
                           hit |-> TRUE]
                     ELSE [symbol |-> rx[i].symbol, users |-> rx[i].users, hit |-> FALSE] ]
      kept == SelectSeq(spliced, LAMBDA e :
                ~( e.symbol = reaction /\ e.users = <<>>
                   /\ (e.hit \/ variant = "part_002") ))
  IN [ i \in 1..Len(kept) |-> [symbol |-> kept[i].symbol, users |-> kept[i].users] ]

applyAction(rx, reaction, username, action) ==
  IF action = "add" THEN addReaction(rx, reaction, username)
  ELSE IF action = "remove" THEN removeReaction(rx, reaction, username)
  ELSE rx

\* updateMessageReactions: the returned boolean and the array afterwards
updateMessageReactions(msgs, messageId, reaction, username, action) ==
  LET idx == FindIndex(msgs, messageId) IN
  IF idx = 0 THEN [ok |-> FALSE, msgs |-> msgs]
  ELSE [ok |-> TRUE,
        msgs |-> [msgs EXCEPT ![idx].reactions =
                    applyAction(@, reaction, username, action)]]

----------------------------------------------------------------------------
(* Accounts of users.json (server.js) *)

hashPassword(password) == <<"sha256", password>>

Accounts == { <<"a">>, <<"b">> }

\* registeredUsers.get(username) ; <<>> stands for undefined
registeredUsers(username) ==
  IF username \in Accounts THEN hashPassword("pw") ELSE <<>>

\* `${name}_${Math.floor(Math.random() * 1000)}`
Suffixed(name, r) == name \o <<"_", ToString(r)>>

\* `User${Math.floor(Math.random() * 10000)}`
RandomUser(r) == <<"User", ToString(r)>>

----------------------------------------------------------------------------
(* Initial state *)

Init ==
  /\ variant \in Variants
  /\ now = 0
  /\ sockState = [s \in Sockets |-> "new"]
  /\ connectedUsers = <<>>
  /\ recentMessages = <<>>
  /\ messageLimits = [s \in Sockets |-> NoLimit]
  /\ typingUsers = {}
  /\ privateChats = <<>>
  /\ userPrivateChats = {}
  /\ clients = [c \in Sockets |-> NewClient]
  /\ out = <<>>
  /\ wire \in BOOLEAN

----------------------------------------------------------------------------
(* The clock and the timers *)

Tick ==
  /\ now < MaxTime
  /\ now' = now + 1
  /\ Emit(<<>>)
  /\ UNCHANGED <<privateChats, userPrivateChats>>
  /\ UNCHANGED <<clients, variant, sockState, connectedUsers, recentMessages,
                 messageLimits, typingUsers>>

\* setInterval(() => pruneExpiredMessages(), 300000)
PruneTimer ==
  /\ HasTTL
  /\ LET pruned == pruneExpiredMessages(recentMessages, now) IN
       /\ recentMessages' = pruned.msgs
       /\ Emit(pruned.events)
  /\ UNCHANGED <<privateChats, userPrivateChats>>
  /\ UNCHANGED <<clients, variant, now, sockState, connectedUsers, messageLimits, typingUsers>>

\* setInterval(cleanupRateLimits, 300000)
CleanupTimer ==
  /\ messageLimits' = cleanupRateLimits(messageLimits, connectedUsers, now)
  /\ Emit(<<>>)
  /\ UNCHANGED <<privateChats, userPrivateChats>>
  /\ UNCHANGED <<clients, variant, now, sockState, connectedUsers, recentMessages, typingUsers>>

----------------------------------------------------------------------------
(* Connection lifecycle *)

\* what io.on("connection") sends to the new socket, and the history afterwards
ConnectionSnapshot(s) ==
  IF variant = "part_001"
  THEN LET pruned == pruneExpiredMessages(recentMessages, now) IN
       [msgs |-> pruned.msgs,
        events |-> pruned.events
                   \o << Ev(ToSocket(s), "recent messages", recent24h(pruned.msgs, now)) >>]
  ELSE IF variant = "part_002"
  THEN LET last10Messages == Tail_n(recentMessages, SnapshotTail) IN
       [msgs |-> recentMessages,
        events |-> [ i \in 1..Len(last10Messages) |->
                       Ev(ToSocket(s), "chat message", last10Messages[i]) ]]
  ELSE [msgs |-> recentMessages, events |-> <<>>]

\* io.on("connection"): socket ids are fresh, so sockets open in order
Connect(s) ==
  /\ sockState[s] = "new"
  /\ \A q \in Sockets : q < s => sockState[q] # "new"
  /\ sockState' = [sockState EXCEPT ![s] = "open"]
  /\ recentMessages' = ConnectionSnapshot(s).msgs
  /\ Emit(ConnectionSnapshot(s).events)
  /\ UNCHANGED <<privateChats, userPrivateChats>>
  /\ UNCHANGED <<clients, variant, now, connectedUsers, messageLimits, typingUsers>>

\* socket.on('user joined') of part_001: the registry afterwards and the events
JoinP1(s, data, r, r2) ==
  LET requested == IF sanitizeUsername(data.username) # <<>>
                   THEN sanitizeUsername(data.username) ELSE RandomUser(r2)
      existingUser == \E i \in 1..Len(connectedUsers) :
                         /\ connectedUsers[i].username = requested
                         /\ connectedUsers[i].socketId # s
      username == IF existingUser THEN Suffixed(requested, r) ELSE requested
      users == MapSet(connectedUsers, s, username)
  IN [users |-> users,
      events |-> << Ev(ToSocket(s), "username assigned", username),
                    Ev(ToAll, "user joined", username) >>
                 \o broadcastUserCount(users)]

\* socket.on('user joined') of part_002
JoinP2(s, data, r) ==
  LET username == sanitizeUsername(data.username)
      existingUser == FindByName(connectedUsers, username)
      taken == existingUser # 0 /\ existingUser # s
      newUsername == Suffixed(username, r)
      assigned == IF taken THEN newUsername ELSE username
      users == MapSet(connectedUsers, s, assigned)
  IN IF username = <<>>
     THEN [users |-> connectedUsers,
           events |-> << Ev(ToSocket(s), "error", "Invalid username") >>]
     ELSE [users |-> users,
           events |-> (IF taken
                       THEN << Ev(ToSocket(s), "username changed", newUsername) >>
                       ELSE <<>>)
                      \o << Ev(ToOthers(s), "user joined", assigned),
                            Ev(ToSocket(s), "online users", getOnlineUsers(users)) >>
                      \o broadcastUserCount(users)]

Join(s, data, r, r2) ==
  /\ variant \in {"part_001", "part_002"}
  /\ sockState[s] = "open"
  /\ LET joined == IF variant = "part_001" THEN JoinP1(s, data, r, r2)
                   ELSE JoinP2(s, data, r)
     IN /\ connectedUsers' = joined.users
        /\ Emit(joined.events)
  /\ UNCHANGED <<privateChats, userPrivateChats>>
  /\ UNCHANGED <<clients, variant, now, sockState, recentMessages, messageLimits, typingUsers>>

\* socket.on('login') of server.js: registry, history and events
loginHandler(s, data) ==
  IF data.username = <<>> \/ data.password = ""
  THEN [users |-> connectedUsers, msgs |-> recentMessages,
        events |-> << Ev(ToSocket(s), "login_error", "Username and password required") >>]
  ELSE IF registeredUsers(data.username) = <<>>
          \/ registeredUsers(data.username) # hashPassword(data.password)
  THEN [users |-> connectedUsers, msgs |-> recentMessages,
        events |-> << Ev(ToSocket(s), "login_error", "Invalid username or password") >>]
  ELSE LET existingUser == FindByName(connectedUsers, data.username)
           users == MapSet(connectedUsers, s, data.username)
           pruned == pruneExpiredMessages(recentMessages, now)
       IN [users |-> users, msgs |-> pruned.msgs,
           events |-> (IF existingUser # 0
                       THEN << Ev(ToSocket(s), "login_error", "User already logged in") >>
                       ELSE <<>>)
                      \o << Ev(ToSocket(s), "login_success", data.username),
                            Ev(ToAll, "user joined", data.username) >>
                      \o broadcastUserCount(users)
                      \o pruned.events
                      \o << Ev(ToSocket(s), "recent messages",
                               recent24h(pruned.msgs, now)) >>]

Login(s, data) ==
  /\ variant = "server"
  /\ sockState[s] = "open"
  /\ connectedUsers' = loginHandler(s, data).users
  /\ recentMessages' = loginHandler(s, data).msgs
  /\ Emit(loginHandler(s, data).events)
  /\ UNCHANGED <<privateChats, userPrivateChats>>
  /\ UNCHANGED <<clients, variant, now, sockState, messageLimits, typingUsers>>

\* handleUserDisconnect (part_001, part_002); the body of socket.on("disconnect")
\* in server.js
\* mutant: the teardown announces the departure without looking for a session
handleUserDisconnectUnguarded(s) ==
  LET user == MapGet(connectedUsers, s)
      users == MapDelete(connectedUsers, s)
  IN [users |-> users,
      typing |-> { e \in typingUsers : e.username # user.username },
      limits |-> [messageLimits EXCEPT ![s] = NoLimit],
      events |-> << Ev(ToAll, "user left", user.username) >> \o broadcastUserCount(users)]

handleUserDisconnect(s) ==
  LET user == MapGet(connectedUsers, s)
      users == MapDelete(connectedUsers, s)
  IN [users |-> users,
      typing |-> IF user # NoUser
                 THEN { e \in typingUsers : e.username # user.username }
                 ELSE typingUsers,
      limits |-> IF variant = "part_002"
                 THEN [messageLimits EXCEPT ![s] = NoLimit]
                 ELSE messageLimits,
      events |-> IF user # NoUser
                 THEN << Ev(IF variant = "part_002" THEN ToOthers(s) ELSE ToAll,
                            "user left", user.username) >>
                      \o broadcastUserCount(users)
                 ELSE <<>>]

\* socket.on("disconnect")
Disconnect(s) ==
  /\ sockState[s] = "open"
  /\ sockState' = [sockState EXCEPT ![s] = "closed"]
  /\ connectedUsers' = handleUserDisconnect(s).users
  /\ typingUsers' = handleUserDisconnect(s).typing
  /\ messageLimits' = handleUserDisconnect(s).limits
  /\ Emit(handleUserDisconnect(s).events)
  /\ UNCHANGED <<privateChats, userPrivateChats>>
  /\ UNCHANGED <<clients, variant, now, recentMessages>>

\* socket.on('user leaving') of part_001 and part_002: the connection stays open
UserLeaving(s) ==
  /\ variant \in {"part_001", "part_002"}
  /\ sockState[s] = "open"
  /\ connectedUsers' = handleUserDisconnect(s).users
  /\ typingUsers' = handleUserDisconnect(s).typing
  /\ messageLimits' = handleUserDisconnect(s).limits
  /\ Emit(handleUserDisconnect(s).events)
  /\ UNCHANGED <<privateChats, userPrivateChats>>
  /\ UNCHANGED <<clients, variant, now, sockState, recentMessages>>

\* typingUsers.set(username, socket.id)
TypingSet(typing, username, s) ==
  { e \in typing : e.username # username } \cup { [username |-> username, socketId |-> s] }

\* typingUsers.delete(username)
TypingDelete(typing, username) == { e \in typing : e.username # username }

\* the username the typing handlers act for; <<>> when they return at once
TypingName(s, data) ==
  IF variant = "part_001" /\ sanitizeUsername(data.username) # <<>>
  THEN sanitizeUsername(data.username)
  ELSE MapGet(connectedUsers, s).username

\* socket.on('typing')
Typing(s, data) ==
  /\ sockState[s] = "open"
  /\ IF TypingName(s, data) = <<>>
     THEN /\ typingUsers' = typingUsers
          /\ Emit(<<>>)
     ELSE /\ typingUsers' = TypingSet(typingUsers, TypingName(s, data), s)
          /\ Emit(<< Ev(ToOthers(s),
                        IF variant = "part_002" THEN "user typing" ELSE "typing",
                        TypingName(s, data)) >>)
  /\ UNCHANGED <<privateChats, userPrivateChats>>
  /\ UNCHANGED <<clients, variant, now, sockState, connectedUsers, recentMessages, messageLimits>>

\* socket.on('stop typing')
StopTyping(s, data) ==
  /\ sockState[s] = "open"
  /\ IF TypingName(s, data) = <<>>
     THEN /\ typingUsers' = typingUsers
          /\ Emit(<<>>)
     ELSE /\ typingUsers' = TypingDelete(typingUsers, TypingName(s, data))
          /\ Emit(<< Ev(ToOthers(s),
                        IF variant = "part_002" THEN "user stop typing" ELSE "stop typing",
                        TypingName(s, data)) >>)
  /\ UNCHANGED <<privateChats, userPrivateChats>>
  /\ UNCHANGED <<clients, variant, now, sockState, connectedUsers, recentMessages, messageLimits>>

\* socket.on('username changed') of part_001: no test for a name in use
renameP1(s, data) ==
  LET newName == sanitizeUsername(data.newUsername)
      user == MapGet(connectedUsers, s)
      users == MapSet(connectedUsers, s, newName)
  IN IF newName = <<>> \/ user = NoUser
     THEN [users |-> connectedUsers, typing |-> typingUsers, events |-> <<>>]
     ELSE [users |-> users, typing |-> typingUsers,
           events |-> << Ev(ToAll, "username changed",
                            [oldName |-> user.username, newName |-> newName]) >>
                      \o broadcastUserCount(users)]

\* socket.on('username changed') of part_002
renameP2(s, data) ==
  LET userData == MapGet(connectedUsers, s)
      newUsername == sanitizeUsername(data.newUsername)
      existingUser == \E i \in 1..Len(connectedUsers) :
                         /\ connectedUsers[i].username = newUsername
                         /\ connectedUsers[i].socketId # s
      users == MapSet(connectedUsers, s, newUsername)
  IN IF userData = NoUser
     THEN [users |-> connectedUsers, typing |-> typingUsers, events |-> <<>>]
     ELSE IF newUsername = <<>>
     THEN [users |-> connectedUsers, typing |-> typingUsers,
           events |-> << Ev(ToSocket(s), "error", "Invalid new username") >>]
     ELSE IF existingUser
     THEN [users |-> connectedUsers, typing |-> typingUsers,
           events |-> << Ev(ToSocket(s), "error", "Username already taken") >>]
     ELSE [users |-> users,
           typing |-> IF \E e \in typingUsers : e.username = userData.username
                      THEN TypingSet(TypingDelete(typingUsers, userData.username),
                                     newUsername, s)
                      ELSE typingUsers,
           events |-> << Ev(ToAll, "user joined", newUsername) >>
                      \o broadcastUserCount(users)]

renameHandler(s, data) ==
  IF variant = "part_001" THEN renameP1(s, data) ELSE renameP2(s, data)

Rename(s, data) ==
  /\ variant \in {"part_001", "part_002"}
  /\ sockState[s] = "open"
  /\ connectedUsers' = renameHandler(s, data).users
  /\ typingUsers' = renameHandler(s, data).typing
  /\ Emit(renameHandler(s, data).events)
  /\ UNCHANGED <<privateChats, userPrivateChats>>
  /\ UNCHANGED <<clients, variant, now, sockState, recentMessages, messageLimits>>

----------------------------------------------------------------------------
(* Messages and reactions *)

NewMessage(id, username, message, t) ==
  [id |-> id, username |-> username, message |-> message,
   timestamp |-> t, reactions |-> <<>>]

\* the username the stored message carries
ChatAuthor(s, data) ==
  LET userData == MapGet(connectedUsers, s) IN
  IF variant = "server"
  THEN IF userData # NoUser THEN userData.username ELSE Unknown
  ELSE IF variant = "part_001"
  THEN IF sanitizeUsername(data.username) # <<>> THEN sanitizeUsername(data.username)
       ELSE IF userData # NoUser THEN userData.username ELSE Unknown
  ELSE userData.username

\* the message of the error a refused sender gets
RateLimitError ==
  IF variant = "part_002" THEN "Rate limit exceeded. Please slow down."
  ELSE "Rate limit exceeded"

\* socket.on("chat message"): rate-limit map, history and events
chatMessageHandler(s, data, r) ==
  LET checked == checkRateLimit(messageLimits, s, now)
      text == sanitizeMessage(data.message)
      id == IF variant = "part_002" /\ data.id # 0 THEN data.id ELSE GenId(now, r)
      messageData == NewMessage(id, ChatAuthor(s, data), text, now)
      added == addMessageToHistory(recentMessages, messageData, now)
  IN IF ~checked.ok
     THEN [limits |-> checked.limits, msgs |-> recentMessages,
           events |-> << Ev(ToSocket(s), "error", RateLimitError) >>]
     ELSE IF variant = "part_002" /\ MapGet(connectedUsers, s) = NoUser
     THEN [limits |-> checked.limits, msgs |-> recentMessages,
           events |-> << Ev(ToSocket(s), "error", "User not found. Please refresh.") >>]
     ELSE IF text = <<>>
     THEN [limits |-> checked.limits, msgs |-> recentMessages,
           events |-> IF variant = "part_002"
                      THEN << Ev(ToSocket(s), "error", "Invalid message") >>
                      ELSE <<>>]
     ELSE [limits |-> checked.limits, msgs |-> added.msgs,
           events |-> added.events \o << Ev(ToAll, "chat message", messageData) >>]

ChatMessage(s, data, r) ==
  /\ sockState[s] = "open"
  /\ messageLimits' = chatMessageHandler(s, data, r).limits
  /\ recentMessages' = chatMessageHandler(s, data, r).msgs
  /\ Emit(chatMessageHandler(s, data, r).events)
  /\ UNCHANGED <<privateChats, userPrivateChats>>
  /\ UNCHANGED <<clients, variant, now, sockState, connectedUsers, typingUsers>>

\* socket.on('message reaction'): history and events
reactionHandler(s, data) ==
  LET userData == MapGet(connectedUsers, s)
      username == IF variant = "part_002" THEN userData.username ELSE data.username
      updated == updateMessageReactions(recentMessages, data.messageId,
                                        data.reaction, username, data.action)
      broadcast == Ev(ToAll, "message reaction",
                      [messageId |-> data.messageId, reaction |-> data.reaction,
                       username |-> username, action |-> data.action])
  IN IF variant = "part_002" /\ userData = NoUser
     THEN [msgs |-> recentMessages,
           events |-> << Ev(ToSocket(s), "error", "User not found. Please refresh.") >>]
     ELSE IF \/ data.messageId = 0 \/ data.reaction = "" \/ data.action = ""
             \/ (variant # "part_002" /\ data.username = <<>>)
     THEN [msgs |-> recentMessages,
           events |-> IF variant = "part_002"
                      THEN << Ev(ToSocket(s), "error", "Invalid reaction data") >>
                      ELSE <<>>]
     ELSE [msgs |-> updated.msgs,
           events |-> IF updated.ok THEN << broadcast >>
                      ELSE IF variant = "part_002"
                      THEN << Ev(ToSocket(s), "error", "Message not found") >>
                      ELSE <<>>]

MessageReaction(s, data) ==
  /\ sockState[s] = "open"
  /\ recentMessages' = reactionHandler(s, data).msgs
  /\ Emit(reactionHandler(s, data).events)
  /\ UNCHANGED <<privateChats, userPrivateChats>>
  /\ UNCHANGED <<clients, variant, now, sockState, connectedUsers, messageLimits, typingUsers>>

----------------------------------------------------------------------------
(* Private chats. privateChats is a JS Map keyed by the chat id, kept as    *)
(* the sequence of its records in insertion order.                          *)

\* UTF-16 code unit of the characters the model's strings are made of
CodeUnit(c) ==
  CASE c = " " -> 32
    [] c = "_" -> 95
    [] c = "a" -> 97
    [] c = "b" -> 98
    [] c = "h" -> 104

\* x < y for strings, as Array.prototype.sort compares them by default
RECURSIVE StrLess(_, _)
StrLess(x, y) ==
  IF y = <<>> THEN FALSE
  ELSE IF x = <<>> THEN TRUE
  ELSE IF Head(x) = Head(y) THEN StrLess(Tail(x), Tail(y))
  ELSE CodeUnit(Head(x)) < CodeUnit(Head(y))

\* mutant: the pair is used in the order of the arguments
SortPairAsGiven(user1, user2) == <<user1, user2>>

\* [user1, user2].sort() ; the sort is stable
SortPair(user1, user2) ==
  IF StrLess(user2, user1) THEN <<user2, user1>> ELSE <<user1, user2>>

\* server.js: `pc_${participants.join('_')}`
pcChatId(user1, user2) ==
  LET participants == SortPair(user1, user2) IN
    <<"p", "c", "_">> \o participants[1] \o <<"_">> \o participants[2]

\* part_002: `private_${sortedUsers[0]}_${sortedUsers[1]}`
createPrivateChatId(user1, user2) ==
  LET sortedUsers == SortPair(user1, user2) IN
    <<"p", "r", "i", "v", "a", "t", "e", "_">>
      \o sortedUsers[1] \o <<"_">> \o sortedUsers[2]

\* the id under which the running variant files the chat of two users
chatIdFor(user1, user2) ==
  IF variant = "server" THEN pcChatId(user1, user2)
  ELSE createPrivateChatId(user1, user2)

ChatIndex(chats, chatId) ==
  IF \E i \in 1..Len(chats) : chats[i].id = chatId
  THEN CHOOSE i \in 1..Len(chats) : chats[i].id = chatId
  ELSE 0

\* privateChats.has(chatId)
ChatHas(chats, chatId) == ChatIndex(chats, chatId) # 0

\* mutant: an accept starts the chat of the two users anew
getOrCreatePrivateChatAnew(chats, userChats, user1, user2, t) ==
  LET chatId == IF variant = "server" THEN pcChatId(user1, user2)
                ELSE createPrivateChatId(user1, user2)
  IN [ chatId |-> chatId,
       chats |-> IF ChatHas(chats, chatId)
                 THEN [chats EXCEPT ![ChatIndex(chats, chatId)].messages = <<>>]
                 ELSE Append(chats, [ id |-> chatId,
                                      participants |-> {user1, user2},
                                      messages |-> <<>> ]),
       userChats |-> userChats ]

\* getOrCreatePrivateChat(user1, user2) at time t: the id, and the two maps
\* afterwards
getOrCreatePrivateChat(chats, userChats, user1, user2, t) ==
  IF variant = "server"
  THEN LET chatId == pcChatId(user1, user2) IN
         [ chatId |-> chatId,
           chats |-> IF ChatHas(chats, chatId) THEN chats
                     ELSE Append(chats, [ id |-> chatId,
                                          participants |-> {user1, user2},
                                          messages |-> <<>>,
                                          created |-> t ]),
           userChats |-> userChats ]
  ELSE LET chatId == createPrivateChatId(user1, user2) IN
         [ chatId |-> chatId,
           chats |-> IF ChatHas(chats, chatId) THEN chats
                     ELSE Append(chats, [ id |-> chatId,
                                          participants |-> {user1, user2},
                                          messages |-> <<>> ]),
           userChats |-> userChats \cup { [username |-> user1, chatId |-> chatId],
                                          [username |-> user2, chatId |-> chatId] } ]

\* io.sockets.sockets.get(socketId) finds a socket
SocketLive(k) == k \in Sockets /\ sockState[k] = "open"

\* socket.on('accept private chat') of server.js
acceptServer(s, data) ==
  LET userData == MapGet(connectedUsers, s)
      got == getOrCreatePrivateChat(privateChats, userPrivateChats,
                                    userData.username, data.fromUsername, now)
      sender == FindByName(connectedUsers, data.fromUsername)
      messages == got.chats[ChatIndex(got.chats, got.chatId)].messages
      accepted == IF SocketLive(sender)
                  THEN << Ev(ToSocket(sender), "private chat accepted",
                             [byUsername |-> userData.username, chatId |-> got.chatId]) >>
                  ELSE <<>>
      history == << Ev(ToSocket(s), "private chat history",
                       [chatId |-> got.chatId, messages |-> messages]) >>
                 \o IF SocketLive(sender)
                    THEN << Ev(ToSocket(sender), "private chat history",
                               [chatId |-> got.chatId, messages |-> messages]) >>
                    ELSE <<>>
  IN IF ~MapHas(connectedUsers, s)
     THEN [chats |-> privateChats, userChats |-> userPrivateChats, events |-> <<>>]
     ELSE [chats |-> got.chats, userChats |-> got.userChats, events |-> accepted \o history]

\* the checks the handlers of part_001 and part_002 make before they look for
\* the chat: the error they answer, or <<>> when the event passes
acceptRefusal(s, data) ==
  IF ~MapHas(connectedUsers, s)
  THEN << Ev(ToSocket(s), "error", "User not found. Please refresh.") >>
  ELSE IF data.fromUsername = <<>>
  THEN << Ev(ToSocket(s), "error", "Invalid sender") >>
  ELSE IF FindByName(connectedUsers, data.fromUsername) = 0
  THEN << Ev(ToSocket(s), "error", "User is no longer online") >>
  ELSE <<>>

\* socket.on('accept private chat') of part_001: the file defines no
\* getOrCreatePrivateChat, the call throws and the handler's catch logs it
acceptP1(s, data) ==
  [chats |-> privateChats, userChats |-> userPrivateChats, events |-> acceptRefusal(s, data)]

\* socket.on('accept private chat') of part_002
acceptP2(s, data) ==
  LET userData == MapGet(connectedUsers, s)
      got == getOrCreatePrivateChat(privateChats, userPrivateChats,
                                    userData.username, data.fromUsername, now)
      sender == FindByName(connectedUsers, data.fromUsername)
      messages == got.chats[ChatIndex(got.chats, got.chatId)].messages
      accepted == IF SocketLive(sender)
                  THEN << Ev(ToSocket(sender), "private chat accepted",
                             [byUsername |-> userData.username, chatId |-> got.chatId]) >>
                  ELSE <<>>
      history == IF messages = <<>> THEN <<>>
                 ELSE << Ev(ToSocket(s), "private chat history",
                            [chatId |-> got.chatId, messages |-> Tail_n(messages, ReplayTail),
                             withUsername |-> data.fromUsername]) >>
                      \o IF SocketLive(sender)
                         THEN << Ev(ToSocket(sender), "private chat history",
                                    [chatId |-> got.chatId,
                                     messages |-> Tail_n(messages, ReplayTail),
                                     withUsername |-> userData.username]) >>
                         ELSE <<>>
  IN IF acceptRefusal(s, data) # <<>>
     THEN [chats |-> privateChats, userChats |-> userPrivateChats,
           events |-> acceptRefusal(s, data)]
     ELSE [chats |-> got.chats, userChats |-> got.userChats, events |-> accepted \o history]

\* `const { fromUsername } = data` (or `const { chatId, ... } = data`) throws
\* a TypeError: the sender has a session and sent no payload
DestructuringThrows(s, data) == MapHas(connectedUsers, s) /\ data = Undefined

\* An exception leaves a handler that has no try/catch: nothing catches it
\* (the file registers no 'uncaughtException' listener) and the process
\* exits. Every connection is closed and the maps and arrays are gone.
UncaughtException ==
  /\ sockState' = [q \in Sockets |-> "closed"]
  /\ connectedUsers' = <<>>
  /\ recentMessages' = <<>>
  /\ messageLimits' = [q \in Sockets |-> NoLimit]
  /\ typingUsers' = {}
  /\ privateChats' = <<>>
  /\ userPrivateChats' = {}
  /\ Emit(<<>>)
  /\ UNCHANGED <<clients, variant, now>>

\* the accept handlers of part_001 and part_002 run in a try block: the catch
\* of part_001 logs, the catch of part_002 also answers the sender
acceptHandler(s, data) ==
  IF DestructuringThrows(s, data)
  THEN [chats |-> privateChats, userChats |-> userPrivateChats,
        events |-> IF variant = "part_002"
                   THEN << Ev(ToSocket(s), "error", "Failed to accept private chat") >>
                   ELSE <<>>]
  ELSE CASE variant = "server" -> acceptServer(s, data)
         [] variant = "part_001" -> acceptP1(s, data)
         [] variant = "part_002" -> acceptP2(s, data)

\* the handler of server.js has no try block
AcceptPrivateChat(s, data) ==
  /\ sockState[s] = "open"
  /\ IF variant = "server" /\ DestructuringThrows(s, data)
     THEN UncaughtException
     ELSE /\ LET r == acceptHandler(s, data) IN
               /\ privateChats' = r.chats
               /\ userPrivateChats' = r.userChats
               /\ Emit(r.events)
          /\ UNCHANGED <<clients, variant, now, sockState, connectedUsers, recentMessages,
                         messageLimits, typingUsers>>

\* socket.on('invite to private chat'): the events it emits
inviteHandler(s, data) ==
  LET userData == MapGet(connectedUsers, s)
      target == FindByName(connectedUsers, data.targetUsername)
      invite == << Ev(ToSocket(target), "private chat invite",
                      [fromUsername |-> userData.username]),
                   Ev(ToSocket(s), "private chat invite sent",
                      [toUsername |-> data.targetUsername]) >>
  IN IF ~MapHas(connectedUsers, s)
     THEN << Ev(ToSocket(s), "error", "User not found. Please refresh.") >>
     ELSE IF data.targetUsername = <<>> \/ data.targetUsername = userData.username
     THEN IF variant = "server" THEN <<>>
          ELSE << Ev(ToSocket(s), "error", "Invalid target user") >>
     ELSE IF target = 0
     THEN << Ev(ToSocket(s), "error", "User is not online") >>
     ELSE IF ~SocketLive(target)
     THEN IF variant = "server" THEN <<>>
          ELSE << Ev(ToSocket(s), "error", "User is not available") >>
     ELSE invite

InviteToPrivateChat(s, data) ==
  /\ sockState[s] = "open"
  /\ Emit(inviteHandler(s, data))
  /\ UNCHANGED <<privateChats, userPrivateChats>>
  /\ UNCHANGED <<clients, variant, now, sockState, connectedUsers, recentMessages,
                 messageLimits, typingUsers>>

\* mutant: at the cap the message that came last is dropped
addPrivateMessageToHistoryDropsNewest(chats, chatId, messageData) ==
  IF ~ChatHas(chats, chatId) THEN chats
  ELSE LET i == ChatIndex(chats, chatId)
           pushed == Append(chats[i].messages, messageData)
       IN [chats EXCEPT ![i].messages =
             IF Len(pushed) > MAX_PRIVATE_MESSAGES
             THEN SubSeq(pushed, 1, Len(pushed) - 1) ELSE pushed]

\* addPrivateMessageToHistory(chatId, messageData): privateChats afterwards
addPrivateMessageToHistory(chats, chatId, messageData) ==
  IF ~ChatHas(chats, chatId) THEN chats
  ELSE LET i == ChatIndex(chats, chatId)
           pushed == Append(chats[i].messages, messageData)
       IN [chats EXCEPT ![i].messages =
             IF Len(pushed) > MAX_PRIVATE_MESSAGES THEN Tail(pushed) ELSE pushed]

\* the message object a 'private message' event builds
PrivateMessageData(id, username, message, t) ==
  [id |-> id, username |-> username, message |-> message, timestamp |-> t]

\* the 'private message' event sent to connection k
PrivateDelivery(k, chatId, messageData) ==
  Ev(ToSocket(k), "private message", [chatId |-> chatId, message |-> messageData])

\* socket.on('private message') of server.js
privateMessageServer(s, data) ==
  LET userData == MapGet(connectedUsers, s)
      msgData == PrivateMessageData(GenId(now, 0), userData.username,
                                    sanitizeMessage(data.message), now)
      target == FindByName(connectedUsers, data.toUsername)
  IN IF ~MapHas(connectedUsers, s)
     THEN [limits |-> messageLimits, chats |-> privateChats, events |-> <<>>]
     ELSE [limits |-> messageLimits,
           chats |-> addPrivateMessageToHistory(privateChats, data.chatId, msgData),
           events |-> (IF SocketLive(target)
                       THEN << PrivateDelivery(target, data.chatId, msgData) >>
                       ELSE <<>>)
                      \o << PrivateDelivery(s, data.chatId, msgData) >>]

\* the checks the 'private message' handlers of part_001 and part_002 make
\* after the rate limit: the error they answer, or <<>> when the event passes
privateMessageRefusal(s, data) ==
  LET userData == MapGet(connectedUsers, s) IN
  IF ~MapHas(connectedUsers, s)
  THEN << Ev(ToSocket(s), "error", "User not found. Please refresh.") >>
  ELSE IF data.chatId = <<>> \/ data.message = <<>> \/ data.toUsername = <<>>
  THEN << Ev(ToSocket(s), "error", "Invalid private message data") >>
  ELSE IF sanitizeMessage(data.message) = <<>>
  THEN << Ev(ToSocket(s), "error", "Invalid message") >>
  ELSE IF \/ ~ChatHas(privateChats, data.chatId)
          \/ userData.username
               \notin privateChats[ChatIndex(privateChats, data.chatId)].participants
          \/ data.toUsername
               \notin privateChats[ChatIndex(privateChats, data.chatId)].participants
  THEN << Ev(ToSocket(s), "error", "Invalid chat room") >>
  ELSE <<>>

\* socket.on('private message') of part_001 and part_002. part_001 defines no
\* addPrivateMessageToHistory: the call throws and the handler's catch answers
privateMessageParts(s, data, r) ==
  LET checked == checkRateLimit(messageLimits, s, now)
      userData == MapGet(connectedUsers, s)
      id == IF data.id # 0 THEN data.id ELSE GenId(now, r)
      messageData == PrivateMessageData(id, userData.username,
                                        sanitizeMessage(data.message), now)
      target == FindByName(connectedUsers, data.toUsername)
  IN IF ~checked.ok
     THEN [limits |-> checked.limits, chats |-> privateChats,
           events |-> << Ev(ToSocket(s), "error",
                            "Rate limit exceeded. Please slow down.") >>]
     ELSE IF DestructuringThrows(s, data)
     THEN [limits |-> checked.limits, chats |-> privateChats,
           events |-> << Ev(ToSocket(s), "error", "Failed to send private message") >>]
     ELSE IF privateMessageRefusal(s, data) # <<>>
     THEN [limits |-> checked.limits, chats |-> privateChats,
           events |-> privateMessageRefusal(s, data)]
     ELSE IF variant = "part_001"
     THEN [limits |-> checked.limits, chats |-> privateChats,
           events |-> << Ev(ToSocket(s), "error", "Failed to send private message") >>]
     ELSE [limits |-> checked.limits,
           chats |-> addPrivateMessageToHistory(privateChats, data.chatId, messageData),
           events |-> (IF SocketLive(target)
                       THEN << PrivateDelivery(target, data.chatId, messageData) >>
                       ELSE <<>>)
                      \o << PrivateDelivery(s, data.chatId, messageData) >>]

privateMessageHandler(s, data, r) ==
  IF variant = "server" THEN privateMessageServer(s, data)
  ELSE privateMessageParts(s, data, r)

\* the handler of server.js has no try block
PrivateMessage(s, data, r) ==
  /\ sockState[s] = "open"
  /\ IF variant = "server" /\ DestructuringThrows(s, data)
     THEN UncaughtException
     ELSE /\ LET res == privateMessageHandler(s, data, r) IN
               /\ messageLimits' = res.limits
               /\ privateChats' = res.chats
               /\ Emit(res.events)
          /\ UNCHANGED <<clients, variant, now, sockState, connectedUsers, recentMessages,
                         typingUsers, userPrivateChats>>

----------------------------------------------------------------------------
(* The browser client (chat.js, part_000): connection state and retries.    *)
(* Delays are in milliseconds.                                              *)

\* the delay handleConnectionError passes to setTimeout at the n-th attempt
retryDelay(n) == 2000 * n

ServerUnchanged ==
  UNCHANGED <<variant, now, sockState, connectedUsers, recentMessages, messageLimits,
              typingUsers, privateChats, userPrivateChats, out, wire>>

\* socket.on('connect')
ClientConnected(c) ==
  /\ ~clients[c].isConnected
  /\ clients' = [clients EXCEPT ![c].isConnected = TRUE, ![c].reconnectAttempts = 0]
  /\ ServerUnchanged

\* socket.on('connect_error'): handleConnectionError()
ClientConnectError(c) ==
  /\ ~clients[c].isConnected
  /\ clients[c].reconnectAttempts <= maxReconnectAttempts
  /\ LET attempts == clients[c].reconnectAttempts + 1 IN
       clients' =
         IF attempts <= maxReconnectAttempts
         THEN [clients EXCEPT ![c].isConnected = FALSE,
                              ![c].reconnectAttempts = attempts,
                              ![c].timers = @ \cup {retryDelay(attempts)}]
         ELSE [clients EXCEPT ![c].isConnected = FALSE,
                              ![c].reconnectAttempts = attempts,
                              ![c].localMode = TRUE]
  /\ ServerUnchanged

\* socket.on('disconnect')
ClientDisconnected(c) ==
  /\ clients[c].isConnected
  /\ clients' = [clients EXCEPT ![c].isConnected = FALSE]
  /\ ServerUnchanged

\* a setTimeout of handleConnectionError fires: this.socket.connect()
RetryTimer(c, d) ==
  /\ d \in clients[c].timers
  /\ clients' = [clients EXCEPT ![c].timers = @ \ {d}]
  /\ ServerUnchanged

----------------------------------------------------------------------------
(* Inputs *)

Alice == <<"a">>
Bob == <<"b">>
Hi == <<"h">>
Symbols == {"+1", "<3"}
Rand == 0..(MaxRand - 1)

JoinInputs == { [username |-> n] : n \in {Alice, Bob} }
LoginInputs == { [username |-> n, password |-> "pw"] : n \in {Alice, Bob} }

PlainMessage == [message |-> Hi, username |-> <<>>, id |-> 0]

\* every id the server can have generated, and one it never generates
AllIds == 1..(GenId(MaxTime, MaxRand - 1) + 1)

KnownIds == { recentMessages[i].id : i \in 1..Len(recentMessages) }

\* an id that matches no stored message: never used, or evicted
UnknownId == CHOOSE id \in AllIds : id \notin KnownIds

ReactionInputs ==
  { [messageId |-> id, reaction |-> sym, username |-> u, action |-> a] :
      id \in KnownIds \cup {UnknownId}, sym \in Symbols, u \in {Alice, Bob},
      a \in {"add", "remove"} }

----------------------------------------------------------------------------
(* Reaction store: one connection sends messages and reacts under either   *)
(* name (part_002 takes the name from the session, so the connection joins *)
(* under either name there), with the clock and the TTL prune running.     *)

ReactHistory == MaxMessages50

ReactNext ==
  \/ Tick
  \/ PruneTimer
  \/ Connect(1)
  \/ \E d \in JoinInputs : variant = "part_002" /\ Join(1, d, 1, 1)
  \/ \E r \in Rand : Len(recentMessages) < ReactHistory /\ ChatMessage(1, PlainMessage, r)
  \/ \E d \in ReactionInputs : MessageReaction(1, d)

InitQuiet == Init /\ wire = FALSE

InitWired == Init /\ wire = TRUE

SpecReact == InitQuiet /\ [][ReactNext]_vars

\* the same connection with the clock stopped
ReactStillNext ==
  \/ Connect(1)
  \/ \E d \in JoinInputs : variant = "part_002" /\ Join(1, d, 1, 1)
  \/ \E r \in Rand : Len(recentMessages) < ReactHistory /\ ChatMessage(1, PlainMessage, r)
  \/ \E d \in ReactionInputs : MessageReaction(1, d)

SpecReactStill == InitQuiet /\ [][ReactStillNext]_vars

\* the same connection with the emitted events recorded, one message at a time
ReactWiredNext ==
  \/ Tick
  \/ PruneTimer
  \/ Connect(1)
  \/ \E d \in JoinInputs : variant = "part_002" /\ Join(1, d, 1, 1)
  \/ \E r \in Rand : recentMessages = <<>> /\ ChatMessage(1, PlainMessage, r)
  \/ \E d \in ReactionInputs : MessageReaction(1, d)

SpecReactWired == InitWired /\ [][ReactWiredNext]_vars

----------------------------------------------------------------------------
(* Message history: two connections send messages while the clock runs,    *)
(* the prune timer fires and connections join or log in; the emitted       *)
(* events are recorded. A part_002 payload may carry its own id.           *)

ClientId == GenId(0, 0)

OwnIdMessage == [message |-> Hi, username |-> <<>>, id |-> ClientId]

ChatInputs == IF variant = "part_002" THEN {PlainMessage, OwnIdMessage} ELSE {PlainMessage}

HistNext ==
  \/ Tick
  \/ PruneTimer
  \/ \E s \in Sockets : Connect(s)
  \/ \E s \in Sockets : variant = "part_002" /\ Join(s, [username |-> Alice], 1, 1)
  \/ \E s \in Sockets : Login(s, [username |-> Alice, password |-> "pw"])
  \/ \E s \in Sockets, d \in ChatInputs, r \in Rand : ChatMessage(s, d, r)

SpecHist == InitWired /\ [][HistNext]_vars

----------------------------------------------------------------------------
(* Rate limiter: two connections send messages as fast as they like while  *)
(* the clock runs, the cleanup timer fires, and connections join, log in   *)
(* and disconnect; the emitted events are recorded.                        *)

RateNext ==
  \/ Tick
  \/ CleanupTimer
  \/ \E s \in Sockets : Connect(s)
  \/ \E s \in Sockets : Join(s, [username |-> Alice], 1, 1)
  \/ \E s \in Sockets : Login(s, [username |-> Alice, password |-> "pw"])
  \/ \E s \in Sockets : Disconnect(s)
  \/ \E s \in Sockets : ChatMessage(s, PlainMessage, 0)

SpecRate == InitWired /\ [][RateNext]_vars

----------------------------------------------------------------------------
(* Presence: two connections join, log in, rename, type, leave and         *)
(* disconnect under two names; the emitted events are recorded.            *)

RenameInputs == { [newUsername |-> n] : n \in {Alice, Bob} }

TypingInputs == { [username |-> n] : n \in {<<>>, Bob} }

PresenceNext ==
  \/ \E s \in Sockets : Connect(s)
  \/ \E s \in Sockets, d \in JoinInputs : Join(s, d, 1, 1)
  \/ \E s \in Sockets, d \in LoginInputs : Login(s, d)
  \/ \E s \in Sockets, d \in RenameInputs : Rename(s, d)
  \/ \E s \in Sockets, d \in TypingInputs : Typing(s, d)
  \/ \E s \in Sockets, d \in TypingInputs : StopTyping(s, d)
  \/ \E s \in Sockets : UserLeaving(s)
  \/ \E s \in Sockets : Disconnect(s)

SpecPresence == InitWired /\ [][PresenceNext]_vars

----------------------------------------------------------------------------
(* Identity: one connection sends messages, reactions and typing events    *)
(* before and after it has a session; the emitted events are recorded.     *)

\* a message payload that names an author of its own
SignedMessage == [message |-> Hi, username |-> Bob, id |-> 0]

IdentityChatInputs == {PlainMessage, SignedMessage}

\* message payloads whose body is missing, not a string, or blank
BadBodyInputs ==
  { [message |-> b, username |-> <<>>, id |-> 0] : b \in {<<>>, NotAString, <<" ">>} }

IdentityNext ==
  \/ Connect(1)
  \/ Join(1, [username |-> Alice], 1, 1)
  \/ Login(1, [username |-> Alice, password |-> "pw"])
  \/ \E d \in IdentityChatInputs : recentMessages = <<>> /\ ChatMessage(1, d, 0)
  \/ \E d \in BadBodyInputs : ChatMessage(1, d, 0)
  \/ \E d \in ReactionInputs : MessageReaction(1, d)
  \/ \E d \in TypingInputs : Typing(1, d)

SpecIdentity == InitWired /\ [][IdentityNext]_vars

----------------------------------------------------------------------------
(* Private chats: two connections join or log in under names of which one   *)
(* is a prefix of another and accept private chats from any of the names;   *)
(* the second connection may disconnect. No connection ever sends an        *)
(* invite. The emitted events are recorded.                                 *)

Abe == <<"a", "b">>
ChatNames == {Alice, Bob, Abe}
\* what the first connection and the second connection accept
AcceptInputs1 == { [fromUsername |-> n] : n \in {Alice, Bob, Abe, <<>>} }
AcceptInputs2 == { [fromUsername |-> n] : n \in {Alice, Abe} }

PrivateNext ==
  \/ \E s \in Sockets : Connect(s)
  \/ \E n \in {Alice, Abe} : Join(1, [username |-> n], 0, 0)
  \/ Join(2, [username |-> Bob], 0, 0)
  \/ Login(1, [username |-> Alice, password |-> "pw"])
  \/ Login(2, [username |-> Bob, password |-> "pw"])
  \/ \E d \in AcceptInputs1 : AcceptPrivateChat(1, d)
  \/ \E d \in AcceptInputs2 : AcceptPrivateChat(2, d)
  \/ Disconnect(2)

SpecPrivate == InitWired /\ [][PrivateNext]_vars

----------------------------------------------------------------------------
(* Private messages: Alice on the first connection and Bob on the second    *)
(* invite, accept and send private messages under the id of their chat or   *)
(* under the id of the chat of Alice and Abe, who never joins; Bob may       *)
(* leave, come back and disconnect, and the timers fire. The emitted events  *)
(* are recorded.                                                            *)

InviteInputs == { [targetUsername |-> n] : n \in {Alice, Bob, Abe, <<>>} }
ChatIds == { chatIdFor(Alice, Bob), chatIdFor(Alice, Abe) }
PrivateInputs ==
  { [chatId |-> c, message |-> Hi, toUsername |-> n, id |-> 0] :
      c \in ChatIds, n \in {Alice, Bob} }

PMNext ==
  \/ \E s \in Sockets : Connect(s)
  \/ Join(1, [username |-> Alice], 0, 0)
  \/ Join(2, [username |-> Bob], 0, 0)
  \/ Login(1, [username |-> Alice, password |-> "pw"])
  \/ Login(2, [username |-> Bob, password |-> "pw"])
  \/ \E s \in Sockets, d \in InviteInputs : InviteToPrivateChat(s, d)
  \/ \E n \in {Bob, Abe} : AcceptPrivateChat(1, [fromUsername |-> n])
  \/ AcceptPrivateChat(2, [fromUsername |-> Alice])
  \/ \E s \in Sockets, d \in PrivateInputs : PrivateMessage(s, d, 0)
  \/ UserLeaving(2)
  \/ Disconnect(2)
  \/ CleanupTimer
  \/ PruneTimer

SpecPM == InitWired /\ [][PMNext]_vars

----------------------------------------------------------------------------
(* Events without payload: Alice and Bob join or log in, Alice writes to    *)
(* the room, and either of them accepts a private chat or sends a private   *)
(* message, with a payload or with none. The emitted events are recorded.   *)

FatalNext ==
  \/ \E s \in Sockets : Connect(s)
  \/ Join(1, [username |-> Alice], 0, 0)
  \/ Join(2, [username |-> Bob], 0, 0)
  \/ Login(1, [username |-> Alice, password |-> "pw"])
  \/ Login(2, [username |-> Bob, password |-> "pw"])
  \/ recentMessages = <<>> /\ ChatMessage(1, PlainMessage, 0)
  \/ \E n \in {Alice, Bob} : InviteToPrivateChat(1, [targetUsername |-> n])
  \/ \E s \in Sockets, d \in {[fromUsername |-> Alice], [fromUsername |-> Bob], Undefined} :
       AcceptPrivateChat(s, d)
  \/ \E s \in Sockets, d \in PrivateInputs \cup {Undefined} : PrivateMessage(s, d, 0)

SpecFatal == InitWired /\ [][FatalNext]_vars

----------------------------------------------------------------------------
(* Clients: two browser clients connect, lose the connection, fail to       *)
(* connect and retry.                                                       *)

ClientNext ==
  \/ \E c \in Sockets : ClientConnected(c)
  \/ \E c \in Sockets : ClientConnectError(c)
  \/ \E c \in Sockets : ClientDisconnected(c)
  \/ \E c \in Sockets : \E d \in clients[c].timers : RetryTimer(c, d)

InitClient == InitQuiet /\ variant = "server"

SpecClient == InitClient /\ [][ClientNext]_vars

----------------------------------------------------------------------------
(* Names with an underscore: the first connection is Alice or a_a, the      *)
(* second is Bob or a_b; they accept private chats from each other's names  *)
(* and may disconnect and come back. The emitted events are recorded.       *)

A_A == <<"a", "_", "a">>
A_B == <<"a", "_", "b">>

UnderscoreNext ==
  \/ \E s \in Sockets : Connect(s)
  \/ \E n \in {Alice, A_A} : Join(1, [username |-> n], 0, 0)
  \/ \E n \in {Bob, A_B} : Join(2, [username |-> n], 0, 0)
  \/ Login(1, [username |-> Alice, password |-> "pw"])
  \/ Login(2, [username |-> Bob, password |-> "pw"])
  \/ \E n \in {Bob, A_B} : AcceptPrivateChat(1, [fromUsername |-> n])
  \/ \E n \in {Alice, A_A} : AcceptPrivateChat(2, [fromUsername |-> n])
  \/ \E s \in Sockets : Disconnect(s)

SpecUnderscore == InitWired /\ [][UnderscoreNext]_vars

----------------------------------------------------------------------------
(* Claims about the reaction store *)

Holders(rx) == UNION { Range(rx[j].users) : j \in 1..Len(rx) }

SymbolsOf(rx, u) == { rx[j].symbol : j \in { k \in 1..Len(rx) : u \in Range(rx[k].users) } }

\* the reaction reaches updateMessageReactions and finds its message
Applies(d) ==
  /\ FindIndex(recentMessages, d.messageId) # 0
  /\ variant = "part_002" => MapHas(connectedUsers, 1)

\* the username the handler passes to updateMessageReactions
Reactor(d) ==
  IF variant = "part_002" THEN MapGet(connectedUsers, 1).username ELSE d.username

RxBefore(d) == recentMessages[FindIndex(recentMessages, d.messageId)].reactions
RxAfter(d) == recentMessages'[FindIndex(recentMessages, d.messageId)].reactions

\* C1: on every message in history, every username is in the user set of at
\* most one reaction symbol, whatever reactions, appends and evictions came before.
C1_OneReactionPerUser ==
  \A i \in 1..Len(recentMessages) :
    LET rx == recentMessages[i].reactions IN
    \A u \in Holders(rx) :
      Cardinality({ j \in 1..Len(rx) : u \in Range(rx[j].users) }) <= 1

C1_TwoSymbolsHeld ==
  \E i \in 1..Len(recentMessages) :
    /\ Len(recentMessages) = 2
    /\ now > recentMessages[1].timestamp
    /\ SymbolsOf(recentMessages[i].reactions, Alice) = {"<3"}
    /\ SymbolsOf(recentMessages[i].reactions, Bob) = {"+1"}

\* C2: after an add on an existing message the user holds the added symbol and
\* no other, no symbol is left with an empty user set, and every other user
\* holds exactly the symbols held before.
C2_AddReplaces ==
  [][ \A d \in ReactionInputs :
        (d.action = "add" /\ Applies(d) /\ MessageReaction(1, d)) =>
          /\ SymbolsOf(RxAfter(d), Reactor(d)) = {d.reaction}
          /\ \A j \in 1..Len(RxAfter(d)) : RxAfter(d)[j].users # <<>>
          /\ \A v \in (Holders(RxBefore(d)) \cup Holders(RxAfter(d))) \ {Reactor(d)} :
               SymbolsOf(RxAfter(d), v) = SymbolsOf(RxBefore(d), v) ]_vars

C2_Replaced ==
  \E i \in 1..Len(recentMessages) :
    recentMessages[i].reactions =
      << [symbol |-> "+1", users |-> <<Bob>>], [symbol |-> "<3", users |-> <<Alice>>] >>

\* C3: a remove on an existing message takes the user out of the named symbol
\* only: every other symbol's user set and every other user's symbols are as
\* before, the symbol's entry is deleted exactly when its set became empty, and
\* the whole reaction map is unchanged when the user did not hold the symbol.
C3_RemoveOnlyNamed ==
  [][ \A d \in ReactionInputs :
        (d.action = "remove" /\ Applies(d) /\ MessageReaction(1, d)) =>
          /\ d.reaction \notin SymbolsOf(RxAfter(d), Reactor(d))
          /\ \A sym \in Symbols \ {d.reaction} :
               /\ UsersOf(RxAfter(d), sym) = UsersOf(RxBefore(d), sym)
               /\ HasSymbol(RxAfter(d), sym) <=> HasSymbol(RxBefore(d), sym)
          /\ \A v \in (Holders(RxBefore(d)) \cup Holders(RxAfter(d))) \ {Reactor(d)} :
               SymbolsOf(RxAfter(d), v) = SymbolsOf(RxBefore(d), v)
          /\ HasSymbol(RxAfter(d), d.reaction) <=>
               /\ HasSymbol(RxBefore(d), d.reaction)
               /\ Range(UsersOf(RxBefore(d), d.reaction)) \ {Reactor(d)} # {}
          /\ d.reaction \notin SymbolsOf(RxBefore(d), Reactor(d)) =>
               RxAfter(d) = RxBefore(d) ]_vars

C3_Removed ==
  /\ Len(out) = 1
  /\ out[1].event = "message reaction"
  /\ out[1].data.action = "remove"
  /\ out[1].data.username = Alice
  /\ out[1].data.reaction = "+1"
  /\ \E i \in 1..Len(recentMessages) :
       /\ recentMessages[i].id = out[1].data.messageId
       /\ recentMessages[i].reactions = << [symbol |-> "+1", users |-> <<Bob>>] >>

\* C4: a reaction whose messageId matches no message in history is ignored:
\* no message changes, nothing is broadcast and no error goes back to the sender.
C4_UnknownIdIgnored ==
  [][ \A d \in ReactionInputs :
        ( /\ FindIndex(recentMessages, d.messageId) = 0
          /\ variant = "part_002" => MapHas(connectedUsers, 1)
          /\ MessageReaction(1, d) ) =>
          /\ recentMessages' = recentMessages
          /\ out' = <<>> ]_vars

----------------------------------------------------------------------------
(* Claims about the message history *)

DeletedEvents(o) == SelectSeq(o, LAMBDA e : e.event = "message deleted")

ExpiredAt(msgs, t) == SelectSeq(msgs, LAMBDA m : Expired(m, t))

IdsOf(msgs) == [ i \in 1..Len(msgs) |-> msgs[i].id ]

\* the step stored a message: its broadcast is the last event emitted
Appended(o) ==
  /\ o # <<>>
  /\ o[Len(o)].event = "chat message"
  /\ o[Len(o)].to = ToAll

AcceptedCount == messageLimits[1].count + messageLimits[2].count

\* C5: every id carried by a 'message deleted' event is the id of a stored
\* message whose age exceeded the TTL at that moment; a step taken while no
\* stored message is that old emits no 'message deleted' event, whatever it
\* evicts for capacity.
C5_CapacityEvictionSilent ==
  [][ /\ \A i \in 1..Len(DeletedEvents(out')) :
           \A k \in 1..Len(DeletedEvents(out')[i].data) :
             \E j \in 1..Len(recentMessages) :
               /\ recentMessages[j].id = DeletedEvents(out')[i].data[k]
               /\ Expired(recentMessages[j], now')
      /\ ExpiredAt(recentMessages, now') = <<>> => DeletedEvents(out') = <<>> ]_vars

C5_EvictedSilently ==
  /\ variant = "part_001"
  /\ now = 0
  /\ AcceptedCount > MAX_MESSAGES
  /\ Len(recentMessages) = MAX_MESSAGES
  /\ Appended(out)
  /\ DeletedEvents(out) = <<>>

\* C6: where the server prunes (server.js, part_001), a step that removes
\* messages older than the TTL, or that announces a deletion, emits exactly one
\* 'message deleted' event, addressed to every connection and carrying the ids
\* of all the messages that were older than the TTL, and leaves no such message
\* in history; the same holds after every run of the prune timer.
C6_TtlEvictionBatched ==
  [][ /\ ( /\ HasTTL
           /\ \/ Len(ExpiredAt(recentMessages', now')) < Len(ExpiredAt(recentMessages, now'))
              \/ DeletedEvents(out') # <<>> ) =>
           /\ Len(DeletedEvents(out')) = 1
           /\ DeletedEvents(out')[1].to = ToAll
           /\ DeletedEvents(out')[1].data = IdsOf(ExpiredAt(recentMessages, now'))
           /\ ExpiredAt(recentMessages', now') = <<>>
      /\ PruneTimer => ExpiredAt(recentMessages', now') = <<>> ]_vars

C6_BatchDeleted ==
  /\ Len(DeletedEvents(out)) = 1
  /\ Len(DeletedEvents(out)[1].data) >= 2
  /\ ExpiredAt(recentMessages, now) = <<>>

RECURSIVE IsSubsequence(_, _)
IsSubsequence(a, b) ==
  IF a = <<>> THEN TRUE
  ELSE IF b = <<>> THEN FALSE
  ELSE IF Head(a) = Head(b) THEN IsSubsequence(Tail(a), Tail(b))
  ELSE IsSubsequence(a, Tail(b))

\* the history a connection is handed in the events just emitted
Snapshots(o) ==
  IF variant = "part_002"
  THEN LET sent == SelectSeq(o, LAMBDA e : e.event = "chat message" /\ e.to.kind = "socket")
       IN IF sent = <<>> THEN <<>> ELSE << [ i \in 1..Len(sent) |-> sent[i].data ] >>
  ELSE LET sent == SelectSeq(o, LAMBDA e : e.event = "recent messages")
       IN [ i \in 1..Len(sent) |-> sent[i].data ]

\* C7: a snapshot handed to a connection holds no message older than the TTL
\* at the time it is sent, and its messages are messages of the history in
\* insertion order.
C7_SnapshotFresh ==
  \A i \in 1..Len(Snapshots(out)) :
    /\ ExpiredAt(Snapshots(out)[i], now) = <<>>
    /\ IsSubsequence(Snapshots(out)[i], recentMessages)

\* C8: the history never holds more than the capacity, and a step that stores
\* a message leaves the most recent messages in their original order: the
\* messages kept before the append followed by the new one, less a prefix.
C8_BoundedOldestFirst ==
  [][ /\ Len(recentMessages') <= MAX_MESSAGES
      /\ MAX_MESSAGES <= MaxMessages200
      /\ Appended(out') =>
           LET kept == IF HasTTL THEN recent24h(recentMessages, now') ELSE recentMessages
               full == Append(kept, out'[Len(out')].data)
           IN /\ Len(recentMessages') = IF Len(full) > MAX_MESSAGES THEN MAX_MESSAGES
                                        ELSE Len(full)
              /\ recentMessages' = Tail_n(full, Len(recentMessages')) ]_vars

C8_OldestEvicted ==
  /\ variant = "server"
  /\ now = 0
  /\ AcceptedCount > MAX_MESSAGES
  /\ Len(recentMessages) = MAX_MESSAGES
  /\ Appended(out)
  /\ recentMessages[MAX_MESSAGES] = out[Len(out)].data

\* C9: no two messages in history have the same id.
C9_UniqueIds ==
  \A i, j \in 1..Len(recentMessages) :
    i # j => recentMessages[i].id # recentMessages[j].id

----------------------------------------------------------------------------
(* Claims about the rate limiter *)

Refused(o, s) == o = << Ev(ToSocket(s), "error", RateLimitError) >>

\* C10: a message event from a connection with no window, or whose window's
\* reset time has passed, is allowed and opens a window with count 1 and reset
\* time now + window; within a window, an event is allowed and counted while
\* fewer than the cap have been allowed, and refused once the cap is reached.
C10_RateLimiter ==
  [][ \A s \in Sockets :
        ChatMessage(s, PlainMessage, 0) =>
          LET w == messageLimits[s] IN
          IF w = NoLimit \/ now > w.resetTime
          THEN /\ ~Refused(out', s)
               /\ messageLimits'[s] = [count |-> 1, resetTime |-> now + RATE_LIMIT_WINDOW]
          ELSE IF w.count < MESSAGE_RATE_LIMIT
          THEN /\ ~Refused(out', s)
               /\ messageLimits'[s] = [count |-> w.count + 1, resetTime |-> w.resetTime]
          ELSE /\ Refused(out', s)
               /\ messageLimits'[s] = w ]_vars

C10_RefusedInLateWindow ==
  \E s \in Sockets :
    /\ now = RATE_LIMIT_WINDOW + 1
    /\ Refused(out, s)
    /\ messageLimits[s] = [count |-> MESSAGE_RATE_LIMIT, resetTime |-> now + RATE_LIMIT_WINDOW]

\* the connection's window is open at the cap: allow() returns false
AtCap(s) ==
  /\ messageLimits[s] # NoLimit
  /\ now <= messageLimits[s].resetTime
  /\ messageLimits[s].count >= MESSAGE_RATE_LIMIT

\* C11: a message event from a connection whose window is at the cap changes
\* no window, no session and no stored message, and its only output is the
\* rate-limit error to that connection; no window ever counts more than the cap.
C11_RefusalMutatesNothing ==
  [][ /\ \A s \in Sockets :
           (AtCap(s) /\ ChatMessage(s, PlainMessage, 0)) =>
             /\ messageLimits' = messageLimits
             /\ recentMessages' = recentMessages
             /\ connectedUsers' = connectedUsers
             /\ out' = << Ev(ToSocket(s), "error", RateLimitError) >>
      /\ \A s \in Sockets : messageLimits'[s].count <= MESSAGE_RATE_LIMIT ]_vars

C11_RefusedAtCap ==
  /\ now = 0
  /\ sockState[2] = "new"
  /\ Refused(out, 1)
  /\ messageLimits[1] = [count |-> MESSAGE_RATE_LIMIT, resetTime |-> RATE_LIMIT_WINDOW]
  /\ Len(recentMessages) = MESSAGE_RATE_LIMIT

\* stored messages accepted between t and t + RATE_LIMIT_WINDOW
AcceptedBetween(t) ==
  { i \in 1..Len(recentMessages) :
      /\ recentMessages[i].timestamp >= t
      /\ recentMessages[i].timestamp <= t + RATE_LIMIT_WINDOW }

\* C12: while a single connection is the only one that ever opened, so that
\* every stored message was accepted from it, and it has a window opened at
\* time t, at most the cap of the stored messages were accepted between t and
\* t + window, whatever sweeps, joins and logins came in between.
C12_CapPerWindow ==
  ( /\ sockState[1] # "new"
    /\ \A q \in Sockets \ {1} : sockState[q] = "new"
    /\ messageLimits[1] # NoLimit ) =>
    Cardinality(AcceptedBetween(messageLimits[1].resetTime - RATE_LIMIT_WINDOW))
      <= MESSAGE_RATE_LIMIT

----------------------------------------------------------------------------
(* Claims about the presence registry *)

\* C13: no two sessions of the presence registry hold the same username.
C13_UniqueUsernames ==
  \A i, j \in 1..Len(connectedUsers) :
    i # j => connectedUsers[i].username # connectedUsers[j].username

\* another live session holds the name
HeldByOther(s, name) ==
  \E i \in 1..Len(connectedUsers) :
    /\ connectedUsers[i].username = name
    /\ connectedUsers[i].socketId # s

\* C14: a rename by a connection with a session to a name another session
\* holds leaves every session as it was and emits nothing that another
\* connection receives; a rename to a free name gives the requester's session
\* that name and changes no other session.
C14_RenameCollisionRejected ==
  [][ \A s \in Sockets : \A d \in RenameInputs :
        (MapHas(connectedUsers, s) /\ Rename(s, d)) =>
          IF HeldByOther(s, sanitizeUsername(d.newUsername))
          THEN /\ connectedUsers' = connectedUsers
               /\ \A i \in 1..Len(out') : \A q \in Sockets \ {s} : ~Receives(q, out'[i])
          ELSE connectedUsers' = MapSet(connectedUsers, s, sanitizeUsername(d.newUsername))
    ]_vars

\* the events are errors addressed to connection s, and there is one at least
ErrorOnlyTo(o, s) ==
  /\ o # <<>>
  /\ \A i \in 1..Len(o) : o[i].event = "error" /\ o[i].to = ToSocket(s)

\* C15: a message, reaction or typing event from a connection that has no
\* session changes neither history (reactions included), typing state nor the
\* registry, and emits only error events addressed to that connection.
C15_NoSessionRejected ==
  [][ ( /\ ~MapHas(connectedUsers, 1)
        /\ \/ \E d \in IdentityChatInputs : ChatMessage(1, d, 0)
           \/ \E d \in ReactionInputs : MessageReaction(1, d)
           \/ \E d \in TypingInputs : Typing(1, d) ) =>
          /\ recentMessages' = recentMessages
          /\ typingUsers' = typingUsers
          /\ connectedUsers' = connectedUsers
          /\ ErrorOnlyTo(out', 1) ]_vars

\* C16: after the disconnect of a connection that had a session, the registry
\* holds no session for it, it has no rate-limit window, and no typing flag
\* is left for the username it held.
C16_DisconnectClears ==
  [][ \A s \in Sockets :
        (MapHas(connectedUsers, s) /\ Disconnect(s)) =>
          /\ ~MapHas(connectedUsers', s)
          /\ messageLimits'[s] = NoLimit
          /\ \A e \in typingUsers' : e.username # MapGet(connectedUsers, s).username
    ]_vars

\* every 'user count' event of o tells the size of registry m and is followed
\* at once by the 'online users' list of m
CountsTell(o, m) ==
  \A i \in 1..Len(o) :
    o[i].event = "user count" =>
      /\ o[i].to = ToAll
      /\ o[i].data = Len(m)
      /\ i < Len(o)
      /\ o[i + 1] = Ev(ToAll, "online users", getOnlineUsers(m))

\* C17: every 'user count' emitted by a step equals the number of sessions the
\* step leaves and comes with the list of exactly their usernames; on the
\* disconnect of a connection with a session every other connection receives
\* a 'user left' event naming its username and, after it, the reduced count.
C17_PresenceBroadcasts ==
  [][ /\ CountsTell(out', connectedUsers')
      /\ \A s \in Sockets :
           (MapHas(connectedUsers, s) /\ Disconnect(s)) =>
             \E i, j \in 1..Len(out') :
               /\ i < j
               /\ out'[i].event = "user left"
               /\ out'[i].data = MapGet(connectedUsers, s).username
               /\ out'[j].event = "user count"
               /\ out'[j].data = Len(connectedUsers) - 1
               /\ \A q \in Sockets \ {s} : Receives(q, out'[i]) /\ Receives(q, out'[j])
    ]_vars

C17_LeftThenCount ==
  /\ sockState[1] = "closed"
  /\ sockState[2] = "open"
  /\ Len(connectedUsers) = 1
  /\ Len(out) = 3
  /\ out[1].event = "user left"
  /\ out[1].data = Alice
  /\ out[2] = Ev(ToAll, "user count", 1)
  /\ out[3] = Ev(ToAll, "online users", << connectedUsers[1].username >>)

\* C18: a message stored and broadcast for a connection that has a session
\* carries that session's username as its author, whatever username the
\* payload names.
C18_AuthorFromSession ==
  [][ \A d \in IdentityChatInputs :
        ( /\ MapHas(connectedUsers, 1)
          /\ ChatMessage(1, d, 0)
          /\ Appended(out') ) =>
          /\ out'[Len(out')].data.username = MapGet(connectedUsers, 1).username
          /\ recentMessages'[Len(recentMessages')].username
               = MapGet(connectedUsers, 1).username ]_vars

\* C19: a message event whose body is missing, not a string or blank leaves
\* the history and every rate-limit window as they were and emits only error
\* events addressed to the sender.
C19_BadBodyRejected ==
  [][ \A d \in BadBodyInputs :
        ChatMessage(1, d, 0) =>
          /\ recentMessages' = recentMessages
          /\ messageLimits' = messageLimits
          /\ ErrorOnlyTo(out', 1) ]_vars

----------------------------------------------------------------------------
(* Claims about private chats *)

\* the records of privateChats filed for the set of participants p
ChatsOf(p) == { i \in 1..Len(privateChats) : privateChats[i].participants = p }

\* C20: the chat id of two usernames does not depend on their order, and the
\* private chats hold at most one record per set of participants.
C20_ChatIdSymmetric ==
  /\ \A a \in ChatNames, b \in ChatNames : chatIdFor(a, b) = chatIdFor(b, a)
  /\ \A i \in 1..Len(privateChats) :
       ChatsOf(privateChats[i].participants) = {i}

\* the user whose name sorts last has accepted the chat of the other, and the
\* chat the accept names is the one record of the two users
C20_LaterNameAccepted ==
  \E i \in 1..Len(out) :
    /\ out[i].event = "private chat accepted"
    /\ out[i].data.byUsername = Bob
    /\ out[i].data.chatId = chatIdFor(Alice, Bob)
    /\ \E k \in ChatsOf({Alice, Bob}) : privateChats[k].id = out[i].data.chatId

\* C21: every private chat of the registry has exactly two distinct
\* participants.
C21_TwoParticipants ==
  \A i \in 1..Len(privateChats) : Cardinality(privateChats[i].participants) = 2

\* C22: a private chat exists only after an invite between its two users
\* was delivered and accepted; in a run in which no invite is ever sent no
\* accept creates a chat and the registry stays empty.
C22_NoChatWithoutInvite == privateChats = <<>>

\* the target of invite d is missing from the payload or held by no session
NoTarget(d) ==
  d.targetUsername = <<>> \/ FindByName(connectedUsers, d.targetUsername) = 0

\* C23: an invite by a user with a session whose target is missing or held by
\* no session emits error events to the inviter and nothing else, and changes
\* no state.
C23_InviteFailsLocally ==
  [][ \A s \in Sockets : \A d \in InviteInputs :
        (MapHas(connectedUsers, s) /\ NoTarget(d) /\ InviteToPrivateChat(s, d)) =>
          /\ ErrorOnlyTo(out', s)
          /\ out' # <<>>
          /\ UNCHANGED <<connectedUsers, privateChats, userPrivateChats,
                         recentMessages, messageLimits, typingUsers>> ]_vars

\* the events of o named 'private chat accepted' or 'private chat history'
AcceptEvents(o) ==
  SelectSeq(o, LAMBDA e : e.event \in {"private chat accepted", "private chat history"})

\* C24: an accept by a user with a session that names a user without a
\* session leaves the private chats as they were and emits no accepted or
\* history event; an accept that names a user with a session leaves a chat
\* under the id of the pair and sends that user's connection 'private chat
\* accepted' with the chat id.
C24_AcceptNeedsOnlineSender ==
  [][ \A s \in Sockets : \A n \in ChatNames :
        (MapHas(connectedUsers, s) /\ AcceptPrivateChat(s, [fromUsername |-> n])) =>
          IF FindByName(connectedUsers, n) = 0
          THEN /\ privateChats' = privateChats
               /\ userPrivateChats' = userPrivateChats
               /\ AcceptEvents(out') = <<>>
          ELSE /\ ChatHas(privateChats', chatIdFor(MapGet(connectedUsers, s).username, n))
               /\ \E i \in 1..Len(out') :
                    /\ out'[i].event = "private chat accepted"
                    /\ out'[i].to = ToSocket(FindByName(connectedUsers, n))
                    /\ out'[i].data.chatId =
                         chatIdFor(MapGet(connectedUsers, s).username, n) ]_vars

\* the messages stored under chatId
StoredMessages(chatId) ==
  IF ChatHas(privateChats, chatId)
  THEN privateChats[ChatIndex(privateChats, chatId)].messages
  ELSE <<>>

\* C25: every history replay an accept sends carries at most ReplayTail
\* messages, the most recent ones stored for the chat in their stored order,
\* so that the two participants receive the same list.
C25_ReplayLastTwenty ==
  \A i \in 1..Len(out) :
    out[i].event = "private chat history" =>
      /\ Len(out[i].data.messages) <= ReplayTail
      /\ out[i].data.messages = Tail_n(StoredMessages(out[i].data.chatId), ReplayTail)

\* o holds a history event for connection q with this chat id and no message
EmptyHistoryFor(o, q, chatId) ==
  \E i \in 1..Len(o) :
    /\ o[i].event = "private chat history"
    /\ o[i].to = ToSocket(q)
    /\ o[i].data.chatId = chatId
    /\ o[i].data.messages = <<>>

\* C26: when a user accepts the chat of another user who has a session and
\* no chat of the two existed, the connections of both are sent a history
\* event with the id of the chat and an empty list of messages.
C26_FirstContact ==
  [][ \A s \in Sockets : \A n \in ChatNames :
        LET k == FindByName(connectedUsers, n)
            chatId == chatIdFor(MapGet(connectedUsers, s).username, n)
        IN ( /\ MapHas(connectedUsers, s)
             /\ k # 0 /\ k # s
             /\ ~ChatHas(privateChats, chatId)
             /\ AcceptPrivateChat(s, [fromUsername |-> n]) ) =>
               /\ EmptyHistoryFor(out', s, chatId)
               /\ EmptyHistoryFor(out', k, chatId) ]_vars

\* the participants of the chat filed under chatId ; {} when there is none
ParticipantsOf(chatId) ==
  IF ChatHas(privateChats, chatId)
  THEN privateChats[ChatIndex(privateChats, chatId)].participants
  ELSE {}

\* C27: every message in the log of a private chat was written by one of
\* the chat's participants, and every 'private message' event goes to a
\* connection whose username is a participant of the chat the event names.
C27_ParticipantsOnly ==
  /\ \A c \in 1..Len(privateChats) : \A j \in 1..Len(privateChats[c].messages) :
       privateChats[c].messages[j].username \in privateChats[c].participants
  /\ \A i \in 1..Len(out) :
       out[i].event = "private message" =>
         MapGet(connectedUsers, out[i].to.sock).username
           \in ParticipantsOf(out[i].data.chatId)

\* the message a 'private message' handler has just delivered to its sender
DeliveredTo(o, s) ==
  { o[i].data.message : i \in { j \in 1..Len(o) :
        o[j].event = "private message" /\ o[j].to = ToSocket(s) } }

\* C28: no log of a private chat holds more than MAX_PRIVATE_MESSAGES
\* messages, and a private message that is delivered for an existing chat is
\* appended to the chat's log, which loses its oldest message, and no other,
\* when it was full.
C28_PrivateLogBounded ==
  /\ [](\A c \in 1..Len(privateChats) :
          Len(privateChats[c].messages) <= MAX_PRIVATE_MESSAGES)
  /\ [][ \A s \in Sockets : \A d \in PrivateInputs :
           ( /\ PrivateMessage(s, d, 0)
             /\ ChatHas(privateChats, d.chatId)
             /\ DeliveredTo(out', s) # {} ) =>
               \E m \in DeliveredTo(out', s) :
                 StoredMessages(d.chatId)' =
                   Append(IF Len(StoredMessages(d.chatId)) >= MAX_PRIVATE_MESSAGES
                          THEN Tail(StoredMessages(d.chatId))
                          ELSE StoredMessages(d.chatId), m) ]_vars

\* a full log whose newest message has just been delivered and was written
\* by another user than its oldest
C28_FullLogAppended ==
  \E c \in 1..Len(privateChats) :
    LET log == privateChats[c].messages IN
      /\ Len(log) = MAX_PRIVATE_MESSAGES
      /\ log[1].username # log[Len(log)].username
      /\ \E s \in Sockets : log[Len(log)] \in DeliveredTo(out, s)

\* a step keeps every private chat, and keeps its log but for the append of
\* one message with the eviction of the oldest from a full log
ChatsSurvive ==
  \A c \in 1..Len(privateChats) :
    /\ c <= Len(privateChats')
    /\ privateChats'[c].id = privateChats[c].id
    /\ privateChats'[c].participants = privateChats[c].participants
    /\ LET old == privateChats[c].messages
           new == privateChats'[c].messages
       IN \/ new = old
          \/ /\ new # <<>>
             /\ SubSeq(new, 1, Len(new) - 1) =
                  IF Len(old) >= MAX_PRIVATE_MESSAGES THEN Tail(old) ELSE old

\* o holds a history event for connection q that replays the end of log,
\* its last ReplayTail messages at least
ReplayFor(o, q, chatId, log) ==
  \E i \in 1..Len(o) :
    /\ o[i].event = "private chat history"
    /\ o[i].to = ToSocket(q)
    /\ o[i].data.chatId = chatId
    /\ Len(o[i].data.messages) >= Len(Tail_n(log, ReplayTail))
    /\ o[i].data.messages = Tail_n(log, Len(o[i].data.messages))

\* C29: no step (disconnect, leave, sweep and prune included) removes a
\* private chat or a message other than the oldest of a full log on an
\* append, and an accept between two users with sessions whose chat holds
\* messages replays the end of the log to the connections of both.
C29_PrivateStatePersists ==
  [][ /\ ChatsSurvive
      /\ \A s \in Sockets : \A n \in {Alice, Bob} :
           LET k == FindByName(connectedUsers, n)
               chatId == chatIdFor(MapGet(connectedUsers, s).username, n)
           IN ( /\ MapHas(connectedUsers, s)
                /\ k # 0 /\ k # s
                /\ StoredMessages(chatId) # <<>>
                /\ AcceptPrivateChat(s, [fromUsername |-> n]) ) =>
                  /\ ReplayFor(out', s, chatId, StoredMessages(chatId))
                  /\ ReplayFor(out', k, chatId, StoredMessages(chatId)) ]_vars

\* Bob wrote into the chat, his session ended (which dropped his rate-limit
\* window in part_002) and he is back: an accept has replayed the log, his
\* message included, to both connections
C29_ReplayedAfterReturn ==
  /\ variant = "part_002"
  /\ messageLimits[2] = NoLimit
  /\ LET log == StoredMessages(chatIdFor(Alice, Bob)) IN
       /\ log # <<>>
       /\ log[Len(log)].username = Bob
       /\ ReplayFor(out, 1, chatIdFor(Alice, Bob), log)
       /\ ReplayFor(out, 2, chatIdFor(Alice, Bob), log)

\* the session, the rate-limit window and the transport of connection q
OwnState(q) ==
  [session |-> MapGet(connectedUsers, q), limit |-> messageLimits[q], sock |-> sockState[q]]

\* C30: an accept or a private message of one connection, sent with a payload
\* or with none, leaves the session, the rate-limit window and the transport
\* of every other connection, and the history, as they were.
C30_NoEventIsFatal ==
  [][ \A s \in Sockets :
        ( \/ \E d \in {[fromUsername |-> Alice], [fromUsername |-> Bob], Undefined} :
               AcceptPrivateChat(s, d)
          \/ \E d \in PrivateInputs \cup {Undefined} : PrivateMessage(s, d, 0) ) =>
            /\ recentMessages' = recentMessages
            /\ \A q \in Sockets \ {s} : OwnState(q)' = OwnState(q) ]_vars

----------------------------------------------------------------------------
(* Claims about ordering, the sweep and the documentation *)

\* C31: the history holds the messages in the order in which the server
\* received them, and each accepted message is put behind every message that
\* was there, which keep their order, and is broadcast to all connections by
\* the handler that stored it.
C31_ArrivalOrder ==
  /\ [](\A i \in 1..Len(recentMessages) : \A j \in i..Len(recentMessages) :
          recentMessages[i].timestamp <= recentMessages[j].timestamp)
  /\ [][ Appended(out') =>
           /\ recentMessages' # <<>>
           /\ recentMessages'[Len(recentMessages')] = out'[Len(out')].data
           /\ IsSubsequence(SubSeq(recentMessages', 1, Len(recentMessages') - 1),
                            recentMessages) ]_vars

\* both connections have sent, at different times, and the message that
\* arrived last has just been broadcast and stands last
C31_TwoSendersInOrder ==
  /\ messageLimits[1] # NoLimit
  /\ messageLimits[2] # NoLimit
  /\ Len(recentMessages) >= 2
  /\ recentMessages[1].timestamp < recentMessages[Len(recentMessages)].timestamp
  /\ Appended(out)
  /\ out[Len(out)].data = recentMessages[Len(recentMessages)]

\* C32: after a sweep every window that is left belongs to a connection of
\* the registry and has a reset time that has not passed, and the sweep leaves
\* such windows as they were.
C32_SweepKeepsLiveWindows ==
  [][ CleanupTimer =>
        \A s \in Sockets :
          /\ messageLimits'[s] # NoLimit =>
               /\ MapHas(connectedUsers', s)
               /\ now' <= messageLimits'[s].resetTime
          /\ ( /\ MapHas(connectedUsers, s)
               /\ messageLimits[s] # NoLimit
               /\ now <= messageLimits[s].resetTime ) =>
                 messageLimits'[s] = messageLimits[s] ]_vars

\* server.js, where only the sweep deletes windows: the history holds more
\* messages of the current window than the windows count, so the window of
\* the second connection, which has no session, was swept; the window of the
\* first connection, which has one, is there
C32_SweptAndKept ==
  /\ variant = "server"
  /\ out = <<>>
  /\ MapHas(connectedUsers, 1) /\ messageLimits[1] # NoLimit
  /\ sockState[2] = "open" /\ ~MapHas(connectedUsers, 2) /\ messageLimits[2] = NoLimit
  /\ \A i \in 1..Len(recentMessages) : recentMessages[i].timestamp = now
  /\ Len(recentMessages) > messageLimits[1].count

\* C33: the history never holds more than 50 messages (MaxMessages50), and
\* a snapshot handed to a new client holds all the messages of the history.
C33_LastFiftyReplayed ==
  /\ [](Len(recentMessages) <= MaxMessages50)
  /\ [][ \A k \in 1..Len(Snapshots(out')) :
           Snapshots(out')[k] = recentMessages' ]_vars

\* C34: the delays of consecutive reconnection attempts grow by one factor
\* greater than 1: of three attempts in a row the delay of the middle one is
\* the geometric mean of the other two, and each delay exceeds the one before.
C34_ExponentialBackoff ==
  \A c \in Sockets : \A n \in 2..clients[c].reconnectAttempts :
    n <= maxReconnectAttempts =>
      /\ retryDelay(n) > retryDelay(n - 1)
      /\ n >= 3 =>
           retryDelay(n - 1) * retryDelay(n - 1) = retryDelay(n - 2) * retryDelay(n)

\* C35: two different pairs of usernames never share a chat id: whoever is
\* sent a chat id on an accept, and whoever has a chat id filed under the
\* name, is a participant of the chat stored under that id.
C35_ChatIdsInjective ==
  /\ \A k \in 1..Len(out) :
       out[k].event \in {"private chat history", "private chat accepted"} =>
         MapGet(connectedUsers, out[k].to.sock).username
           \in privateChats[ChatIndex(privateChats, out[k].data.chatId)].participants
  /\ \A uc \in userPrivateChats :
       uc.username \in privateChats[ChatIndex(privateChats, uc.chatId)].participants

\* C36: a reaction event from a connection with a session changes the
\* reactions of no username but the session's: on every message every other
\* username holds the same symbols before and after the event.
C36_OnlyOwnReaction ==
  [][ (MapHas(connectedUsers, 1) /\ \E d \in ReactionInputs : MessageReaction(1, d)) =>
        \A v \in {Alice, Bob} \ {MapGet(connectedUsers, 1).username} :
          \A i \in 1..Len(recentMessages) :
            SymbolsOf(recentMessages'[i].reactions, v)
              = SymbolsOf(recentMessages[i].reactions, v) ]_vars

\* C37: a login that is answered with 'login_error' leaves the registry as
\* it was and emits no 'user joined', no presence and no history event.
C37_LoginErrorChangesNothing ==
  [][ (\E k \in 1..Len(out') : out'[k].event = "login_error") =>
        /\ connectedUsers' = connectedUsers
        /\ \A k \in 1..Len(out') :
             out'[k].event \notin {"user joined", "user count", "online users",
                                   "recent messages"} ]_vars

\* C38: the teardown is idempotent: a run for a connection with a session
\* announces exactly one 'user left', and a further run right after any run
\* would change neither the registry nor the typing state and would emit
\* nothing, so the presence count stays as the first run left it.
C38_TeardownIdempotent ==
  [][ \A s \in Sockets :
        (Disconnect(s) \/ UserLeaving(s)) =>
          /\ MapHas(connectedUsers, s) =>
               Cardinality({ k \in 1..Len(out') : out'[k].event = "user left" }) = 1
          /\ handleUserDisconnect(s).users' = connectedUsers'
          /\ handleUserDisconnect(s).typing' = typingUsers'
          /\ handleUserDisconnect(s).events' = <<>> ]_vars

\* the second connection left and then disconnected: the second run emitted
\* nothing and the first connection is still registered and typing
C38_LeftThenDisconnected ==
  /\ variant = "part_002"
  /\ sockState[2] = "closed"
  /\ out = <<>>
  /\ Len(connectedUsers) = 1
  /\ MapHas(connectedUsers, 1)
  /\ typingUsers # {}

\* C39: every entry of the typing map names the username of a session in
\* the registry and holds the connection of that session.
C39_TypingNamesLiveSession ==
  \A e \in typingUsers :
    \E i \in 1..Len(connectedUsers) :
      /\ connectedUsers[i].username = e.username
      /\ connectedUsers[i].socketId = e.socketId

\* the symbol entries in their insertion order, each with the set of its users
EntriesOf(rx) == [ i \in 1..Len(rx) |-> [symbol |-> rx[i].symbol, users |-> Range(rx[i].users)] ]

\* C40: an add of the symbol the user already holds on the message leaves the
\* message's reactions as they were: the same symbol entries in the same
\* order, each held by the same users.
C40_ReAddIdempotent ==
  [][ \A d \in ReactionInputs :
        ( /\ MessageReaction(1, d)
          /\ Applies(d)
          /\ d.action = "add"
          /\ d.reaction \in SymbolsOf(RxBefore(d), Reactor(d)) ) =>
        EntriesOf(RxAfter(d)) = EntriesOf(RxBefore(d)) ]_vars

====
